---- MODULE Spec2Model ----
(***************************************************************************)
(* The raster core of safe-ro: RasterBand.load, NDVIProcessor.compute_ndvi *)
(* and Sentinel1FloodDetector.detect (src/src/safe_ro/core/safe_ro_core.py) *)
(* over a small file system of single-band rasters.                        *)
(*                                                                         *)
(* A sample is a fraction <<n, d>>: d > 0 is the finite number n/d,        *)
(* <<0, 0>> is NaN, <<1, 0>> and <<-1, 0>> are +inf and -inf.  The samples *)
(* of the files are small integers, which float32 holds exactly; numpy's   *)
(* rounding of the interpolation weights is not modelled.                  *)
(***************************************************************************)
EXTENDS Integers, Sequences, FiniteSets, TLC

VARIABLES
    obj,      \* class of the object the caller constructed
    files,    \* the file system: path -> file
    data,     \* RasterBand.data of the band object of each path
    pc,       \* position of the running call
    args,     \* arguments of the running call
    threshold, \* detect's local threshold
    ret,      \* what the call returned
    raised,   \* the exception that left the call, "" when none did
    reached,  \* the steps of the call body executed so far
    prev,     \* what the previous call on the object returned
    caller,   \* the endpoint or dashboard button that made the call
    out,      \* what the caller answered or displayed
    locals,   \* local variables of the script or function that is running
    session,  \* st.session_state of the dashboard session
    remote    \* what the remote services hold: the product, the Drive folder

vars == <<obj, files, data, pc, args, threshold, ret, raised, reached,
          prev, caller, out, locals, session, remote>>

---------------------------------------------------------------------------
(* Bounds of the model *)

\* largest raster, in pixels (height * width)
MaxPixels == 4
\* largest downsample factor a caller passes
MaxFactor == 2

\* default of load's downsample_factor
DefaultFactor == 1
\* default of detect's percentile
DefaultPercentile == 20

\* finite sample values of the files
Samples == {-1, 0, 1}
\* explicit thresholds a caller passes
Thresholds == {-1, 0, 1}
\* percentiles a caller passes
Percentiles == {0, DefaultPercentile, 50, 100}
\* percentiles a caller passes along with an explicit threshold
AnyPercentiles == Percentiles \cup {-5, 150}
\* bounding boxes of the files: (left, bottom, right, top)
Boxes == {[kind |-> "BoundingBox", left |-> 20, bottom |-> 43, right |-> 30, top |-> 48],
          [kind |-> "BoundingBox", left |-> 25, bottom |-> 44, right |-> 26, top |-> 45]}

\* the paths the object was constructed with: NDVIProcessor(RedPath, NirPath),
\* RasterBand(BandPath), Sentinel1FloodDetector(BandPath)
RedPath == "a.tif"
NirPath == "b.tif"
BandPath == "a.tif"
Paths == {RedPath, NirPath}

---------------------------------------------------------------------------
(* float samples *)

NaN == <<0, 0>>
PosInf == <<1, 0>>
NegInf == <<-1, 0>>
Num(n) == <<n, 1>>

\* 2^-22, a float32 below 1e-6
Tiny == <<1, 4194304>>

IsNaN(v) == v = NaN
IsFinite(v) == v[2] > 0
Sign(n) == IF n > 0 THEN 1 ELSE IF n < 0 THEN -1 ELSE 0

\* a < b of IEEE floats: false when either is NaN
Lt(a, b) ==
    IF IsNaN(a) \/ IsNaN(b) THEN FALSE
    ELSE IF IsFinite(a) /\ IsFinite(b) THEN a[1] * b[2] < b[1] * a[2]
    ELSE IF IsFinite(a) THEN b = PosInf
    ELSE IF IsFinite(b) THEN a = NegInf
    ELSE a = NegInf /\ b = PosInf

\* a == b of IEEE floats: false when either is NaN
Eq(a, b) ==
    IF IsNaN(a) \/ IsNaN(b) THEN FALSE
    ELSE IF IsFinite(a) /\ IsFinite(b) THEN a[1] * b[2] = b[1] * a[2]
    ELSE a = b

Neg(a) == <<-a[1], a[2]>>

Add(a, b) ==
    IF IsNaN(a) \/ IsNaN(b) THEN NaN
    ELSE IF IsFinite(a) /\ IsFinite(b) THEN
        IF a[2] = b[2] THEN <<a[1] + b[1], a[2]>>
        ELSE <<a[1] * b[2] + b[1] * a[2], a[2] * b[2]>>
    ELSE IF IsFinite(a) THEN b
    ELSE IF IsFinite(b) THEN a
    ELSE IF a = b THEN a ELSE NaN

Sub(a, b) == Add(a, Neg(b))

\* a / b of IEEE floats: x/0 is +-inf, 0/0 and inf/inf are NaN
Div(a, b) ==
    IF IsNaN(a) \/ IsNaN(b) THEN NaN
    ELSE IF IsFinite(a) /\ IsFinite(b) THEN
        IF b[1] = 0 THEN <<Sign(a[1]), 0>>
        ELSE IF b[1] > 0 THEN <<a[1] * b[2], a[2] * b[1]>>
        ELSE <<-(a[1] * b[2]), -(a[2] * b[1])>>
    ELSE IF IsFinite(a) THEN Num(0)
    ELSE IF IsFinite(b) THEN <<a[1] * (IF b[1] < 0 THEN -1 ELSE 1), 0>>
    ELSE NaN

\* the weighted sum (n1*a + n2*b) / d of two samples, n1 + n2 = d
\* (a tap of weight zero does not contribute)
Mix(a, n1, b, n2, d) ==
    IF n2 = 0 THEN a
    ELSE IF n1 = 0 THEN b
    ELSE IF IsNaN(a) \/ IsNaN(b) THEN NaN
    ELSE <<n1 * a[1] * b[2] + n2 * b[1] * a[2], d * a[2] * b[2]>>

---------------------------------------------------------------------------
(* Python values and files *)

None == [kind |-> "None"]
Pending == [kind |-> "pending"]
Missing == [kind |-> "missing"]
Corrupt == [kind |-> "corrupt"]

Array(h, w, pix) == [kind |-> "array", h |-> h, w |-> w, pix |-> pix]
Pair(a, b) == [kind |-> "pair", grid |-> a, bounds |-> b]

Shapes(maxp) == {s \in (1..maxp) \X (1..maxp) : s[1] * s[2] <= maxp}

Rasters(maxp, values) ==
    UNION {{[kind |-> "raster", h |-> s[1], w |-> s[2], pix |-> p, box |-> b] :
              p \in [1..(s[1] * s[2]) -> values], b \in Boxes} : s \in Shapes(maxp)}

Pixels(f) == IF f.kind = "raster" THEN f.h * f.w ELSE 0

---------------------------------------------------------------------------
(* rasterio *)

Raise(exc) == [kind |-> "raise", exc |-> exc]
Float(v) == [kind |-> "float", v |-> v]

\* the downsample factor ignored
OutShapeNative(h, w, downsample_factor) == <<h, w>>

\* out_shape of RasterBand.load: the decimated shape, or None (the native
\* shape) when a decimated dimension would be zero
OutShape(h, w, downsample_factor) ==
    LET new_h == h \div downsample_factor
        new_w == w \div downsample_factor
    IN  IF new_h > 0 /\ new_w > 0 THEN <<new_h, new_w>> ELSE <<h, w>>

\* the source rows (or columns) 1..n that output index k of m covers
Window(k, m, n) == (((k - 1) * n) \div m + 1)..((k * n) \div m)

\* src.read(1, out_shape, resampling=bilinear): the samples as they are at
\* the native shape; a decimated sample is resampled by the library from the
\* source window it covers and is modelled as any sample of that window
ReadBand(file, shape) ==
    IF shape = <<file.h, file.w>> THEN {file.pix}
    ELSE LET nh == shape[1]
             nw == shape[2]
             win(k) == {file.pix[(i - 1) * file.w + j] :
                           i \in Window((k - 1) \div nw + 1, nh, file.h),
                           j \in Window(((k - 1) % nw) + 1, nw, file.w)}
             all == {file.pix[k] : k \in 1..(file.h * file.w)}
         IN  {p \in [1..(nh * nw) -> all] : \A k \in 1..(nh * nw) : p[k] \in win(k)}

\* the body of the try block of RasterBand.load: the arrays it can produce,
\* or the exception it raises
TryLoad(file, downsample_factor) ==
    IF file.kind # "raster" THEN {Raise("RasterioIOError")}
    ELSE IF downsample_factor = 0 THEN {Raise("ZeroDivisionError")}
    ELSE LET shape == OutShape(file.h, file.w, downsample_factor)
         IN  {Array(shape[1], shape[2], p) : p \in ReadBand(file, shape)}

\* no except clause: the exception leaves load
ExceptLoadNone(outcome) == outcome

\* except Exception: self.data = None
ExceptLoad(outcome) == IF outcome.kind = "raise" THEN None ELSE outcome

\* RasterBand.load: the values self.data can take
LoadBand(file, downsample_factor) ==
    {ExceptLoad(o) : o \in TryLoad(file, downsample_factor)}

\* the file opened for writing
OpenModeWrite == "w"

\* rasterio.open(path): the mode defaults to reading
OpenMode == "r"

\* the file after rasterio.open(path) and the end of the with block: as it
\* was when opened for reading, truncated otherwise
Opened(file) == IF OpenMode = "r" THEN file ELSE Corrupt

\* the bounds None when the file cannot be opened
OpenBoundsNone(file) ==
    IF file.kind # "raster" THEN None ELSE file.box

\* with rasterio.open(path) as src: bounds = src.bounds
OpenBounds(file) ==
    IF file.kind # "raster" THEN Raise("RasterioIOError") ELSE file.box

---------------------------------------------------------------------------
(* cv2 and numpy *)

At(a, i, j) == a.pix[(i - 1) * a.w + j]
Min(x, y) == IF x < y THEN x ELSE y
Max(x, y) == IF x > y THEN x ELSE y

\* the source tap of destination index x (from 0) when ssize samples are
\* resized to dsize: <<sx, r>>, the interpolation being between sx and sx + 1
\* with weight r / (2 * dsize) on the second.  Pixel centres are aligned:
\* fx = (x + 0.5) * ssize / dsize - 0.5, clamped to the first and last sample.
Tap(x, ssize, dsize) ==
    LET n == (2 * x + 1) * ssize - dsize
        d == 2 * dsize
    IN  IF n < 0 THEN <<0, 0>>
        ELSE IF n \div d >= ssize - 1 THEN <<ssize - 1, 0>>
        ELSE <<n \div d, n % d>>

\* cv2.resize(a, (w, h)) with the default bilinear interpolation
Resize(a, h, w) ==
    LET row(i, j) ==
            LET t == Tap(j - 1, a.w, w)
            IN  Mix(At(a, i, t[1] + 1), 2 * w - t[2],
                    At(a, i, Min(t[1] + 2, a.w)), t[2], 2 * w)
        px(i, j) ==
            LET t == Tap(i - 1, a.h, h)
            IN  Mix(row(t[1] + 1, j), 2 * h - t[2],
                    row(Min(t[1] + 2, a.h), j), t[2], 2 * h)
    IN  Array(h, w, [k \in 1..(h * w) |-> px(((k - 1) \div w) + 1, ((k - 1) % w) + 1)])

\* the NIR grid resized to the shape of the RED grid
TargetShapeRed(red, nir) == <<red.h, red.w>>

\* target_shape of compute_ndvi
TargetShape(red, nir) == <<Max(red.h, nir.h), Max(red.w, nir.w)>>

\* 1e-6 is 1 / EpsInv
EpsInv == 1000000
Eps == <<1, EpsInv>>

\* the denominator left as it is
GuardDenomNone(denom) == denom

\* every denominator below 1e-6 in magnitude replaced
GuardDenomSmall(denom) ==
    IF Lt(denom, Eps) /\ Lt(Neg(Eps), denom) THEN Eps ELSE denom

\* denom[denom == 0] = 1e-6
GuardDenom(denom) == IF Eq(denom, Num(0)) THEN Eps ELSE denom

\* the clip left out
ClipNone(v, lo, hi) == v

\* np.clip(v, lo, hi) of one sample
Clip(v, lo, hi) ==
    IF IsNaN(v) THEN v
    ELSE IF Lt(v, lo) THEN lo
    ELSE IF Lt(hi, v) THEN hi
    ELSE v

\* (nir - red) / denom of one pixel, clipped
NdviPixel(red, nir) ==
    Clip(Div(Sub(nir, red), GuardDenom(Add(nir, red))), Num(-1), Num(1))

\* lines 37-44 and the clip of line 49: the grid compute_ndvi returns
NdviGrid(red0, nir0) ==
    LET target_shape == TargetShape(red0, nir0)
        red == IF <<red0.h, red0.w>> # <<nir0.h, nir0.w>>
               THEN Resize(red0, target_shape[1], target_shape[2]) ELSE red0
        nir == IF <<red0.h, red0.w>> # <<nir0.h, nir0.w>>
               THEN Resize(nir0, target_shape[1], target_shape[2]) ELSE nir0
    IN  Array(nir.h, nir.w,
              [k \in 1..(nir.h * nir.w) |-> NdviPixel(red.pix[k], nir.pix[k])])

\* the sample of rank k (from 0) of the sorted samples
Sorted(pix, k) ==
    LET n == Len(pix)
        i == CHOOSE i \in 1..n :
                 /\ Cardinality({j \in 1..n : Lt(pix[j], pix[i])}) <= k
                 /\ k < Cardinality({j \in 1..n : ~Lt(pix[i], pix[j])})
    IN  pix[i]

\* the percentile without interpolation: the sample of the lower rank
PercentileLower(pix, q) ==
    IF q < 0 \/ q > 100 THEN Raise("ValueError")
    ELSE IF \E k \in 1..Len(pix) : IsNaN(pix[k]) THEN Float(NaN)
    ELSE Float(Sorted(pix, (q * (Len(pix) - 1)) \div 100))

\* np.percentile(data, q), linear interpolation between the two nearest ranks;
\* NaN as soon as one sample is NaN
Percentile(pix, q) ==
    IF q < 0 \/ q > 100 THEN Raise("ValueError")
    ELSE IF \E k \in 1..Len(pix) : IsNaN(pix[k]) THEN Float(NaN)
    ELSE LET n == Len(pix)
             lo == (q * (n - 1)) \div 100
             r == (q * (n - 1)) % 100
             hi == Min(lo + 1, n - 1)
         IN  Float(Mix(Sorted(pix, lo), 100 - r, Sorted(pix, hi), r, 100))

\* data <= threshold
MaskLe(a, t) ==
    [kind |-> "array", h |-> a.h, w |-> a.w,
     pix |-> [k \in 1..(a.h * a.w) |-> IF Lt(t, a.pix[k]) \/ IsNaN(a.pix[k]) \/ IsNaN(t) THEN 0 ELSE 1]]

\* the mask as an 8-bit image: 255 where the pixel is below the threshold
MaskScaled(a, t) ==
    [kind |-> "array", h |-> a.h, w |-> a.w,
     pix |-> [k \in 1..(a.h * a.w) |-> IF Lt(a.pix[k], t) THEN 255 ELSE 0]]

\* (data < threshold).astype(np.uint8)
Mask(a, t) ==
    [kind |-> "array", h |-> a.h, w |-> a.w,
     pix |-> [k \in 1..(a.h * a.w) |-> IF Lt(a.pix[k], t) THEN 1 ELSE 0]]

---------------------------------------------------------------------------
(* The state after construction *)

FailedFiles == {Missing, Corrupt}

NoArgs == [op |-> "none"]

\* a part of the state that the program under the specification does not have
Unused == [kind |-> "unused"]

InitCall ==
    /\ data = [p \in Paths |-> None]
    /\ pc = "idle"
    /\ args = NoArgs
    /\ threshold = Pending
    /\ ret = Pending
    /\ raised = ""
    /\ reached = {}
    /\ prev = Pending
    /\ out = Pending
    /\ locals = Unused
    /\ session = Unused
    /\ remote = Unused

\* RasterBand(BandPath) or Sentinel1FloodDetector(BandPath) over one file,
\* float32 samples, NaN among them
InitBand ==
    /\ obj \in {"RasterBand", "Sentinel1FloodDetector"}
    /\ \E f \in FailedFiles \cup Rasters(MaxPixels, {Num(v) : v \in Samples} \cup {NaN}) :
           files = [p \in Paths |-> IF p = BandPath THEN f ELSE Missing]
    /\ InitCall

\* NDVIProcessor(RedPath, NirPath) over two files of integer samples (the
\* optical bands are integer rasters), MaxPixels + 1 pixels between them
InitNdvi ==
    /\ obj = "NDVIProcessor"
    /\ \E fr, fn \in FailedFiles \cup Rasters(MaxPixels, {Num(v) : v \in Samples}) :
           /\ Pixels(fr) + Pixels(fn) <= MaxPixels + 1
           /\ files = [p \in Paths |-> IF p = RedPath THEN fr ELSE fn]
    /\ InitCall

\* NDVIProcessor(RedPath, NirPath) over two float rasters of one shape, of
\* one or two pixels, whose samples are zero or tiny
InitTiny ==
    /\ obj = "NDVIProcessor"
    /\ \E fr, fn \in Rasters(2, {Neg(Tiny), Num(0), Tiny}) :
           /\ <<fr.h, fr.w>> = <<fn.h, fn.w>>
           /\ files = [p \in Paths |-> IF p = RedPath THEN fr ELSE fn]
    /\ InitCall

\* the no-data value the raster declares in its metadata, None when it
\* declares none
NoDataOf(file) == IF "nodata" \in DOMAIN file THEN file.nodata ELSE None

\* RasterBand(BandPath) over a raster of one or two pixels that declares -1
\* as its no-data value
InitNoData ==
    /\ obj = "RasterBand"
    /\ \E f \in Rasters(2, {Num(v) : v \in Samples}) :
           files = [p \in Paths |->
                      IF p = BandPath
                      THEN [kind |-> "raster", h |-> f.h, w |-> f.w, pix |-> f.pix,
                            box |-> f.box, nodata |-> Num(-1)]
                      ELSE Missing]
    /\ InitCall

\* the call is made on the core directly
Direct == "direct"

Init == (InitBand \/ InitNdvi \/ InitTiny \/ InitNoData) /\ caller = Direct

---------------------------------------------------------------------------
(* RasterBand.load *)

Load(downsample_factor) ==
    /\ pc = "idle"
    /\ obj = "RasterBand"
    /\ args' = [op |-> "load", downsample_factor |-> downsample_factor]
    /\ reached' = {"load"}
    /\ pc' = "done"
    /\ \E o \in LoadBand(files[BandPath], downsample_factor) :
           IF o.kind = "raise"
           THEN raised' = o.exc /\ UNCHANGED <<data, ret>>
           ELSE /\ data' = [data EXCEPT ![BandPath] = o]
                /\ ret' = o
                /\ UNCHANGED raised
    /\ files' = [files EXCEPT ![BandPath] = Opened(@)]
    /\ UNCHANGED <<obj, threshold>>
    /\ UNCHANGED <<prev, caller, out, locals, session, remote>>

---------------------------------------------------------------------------
(* NDVIProcessor.compute_ndvi *)

\* the null result only when both loads failed
NdviLoadFailedBoth(red, nir) == red = None /\ nir = None

\* if red is None or nir is None
NdviLoadFailed(red, nir) == red = None \/ nir = None

\* the bounds of the NIR file
NdviBoundsPathNir == NirPath

\* the file whose bounds compute_ndvi returns
NdviBoundsPath == RedPath

\* red = self.red_band.load()
NdviLoadRed ==
    /\ pc = "idle"
    /\ obj = "NDVIProcessor"
    /\ args' = [op |-> "compute_ndvi"]
    /\ reached' = {"load_red"}
    /\ \E o \in LoadBand(files[RedPath], DefaultFactor) :
           IF o.kind = "raise"
           THEN raised' = o.exc /\ pc' = "done" /\ UNCHANGED data
           ELSE data' = [data EXCEPT ![RedPath] = o] /\ pc' = "load_nir"
                /\ UNCHANGED raised
    /\ files' = [files EXCEPT ![RedPath] = Opened(@)]
    /\ UNCHANGED <<obj, threshold, ret>>
    /\ UNCHANGED <<prev, caller, out, locals, session, remote>>

\* nir = self.nir_band.load()
NdviLoadNir ==
    /\ pc = "load_nir"
    /\ reached' = reached \cup {"load_nir"}
    /\ \E o \in LoadBand(files[NirPath], DefaultFactor) :
           IF o.kind = "raise"
           THEN raised' = o.exc /\ pc' = "done" /\ UNCHANGED data
           ELSE data' = [data EXCEPT ![NirPath] = o] /\ pc' = "compute"
                /\ UNCHANGED raised
    /\ files' = [files EXCEPT ![NirPath] = Opened(@)]
    /\ UNCHANGED <<obj, args, threshold, ret>>
    /\ UNCHANGED <<prev, caller, out, locals, session, remote>>

\* lines 35-49: the null check, the resize, the formula, the second open of
\* the bounds file, the return
NdviCompute ==
    /\ pc = "compute"
    /\ pc' = "done"
    /\ LET red == data[RedPath]
           nir == data[NirPath]
           bounds == OpenBounds(files[NdviBoundsPath])
       IN  IF NdviLoadFailed(red, nir)
           THEN ret' = Pair(None, None) /\ UNCHANGED <<raised, reached>>
           ELSE IF red.kind # "array" \/ nir.kind # "array"
           THEN /\ raised' = "AttributeError"
                /\ UNCHANGED <<ret, reached>>
           ELSE IF bounds.kind = "raise"
           THEN /\ raised' = bounds.exc
                /\ reached' = reached \cup {"formula", "bounds"}
                /\ UNCHANGED ret
           ELSE /\ ret' = Pair(NdviGrid(red, nir), bounds)
                /\ reached' = reached \cup {"formula", "bounds"}
                /\ UNCHANGED raised
    /\ files' = IF NdviLoadFailed(data[RedPath], data[NirPath]) THEN files
                ELSE [files EXCEPT ![NdviBoundsPath] = Opened(@)]
    /\ UNCHANGED <<obj, data, args, threshold>>
    /\ UNCHANGED <<prev, caller, out, locals, session, remote>>

---------------------------------------------------------------------------
(* Sentinel1FloodDetector.detect *)

\* the file whose bounds detect returns
DetectBoundsPath == BandPath

\* if not threshold: a threshold of 0.0 taken for a missing one
DetectThresholdFalsy(a, t, percentile) ==
    IF t = None \/ t = Float(Num(0)) THEN Percentile(a.pix, percentile) ELSE t

\* if threshold is None: threshold = np.percentile(data, percentile)
DetectThreshold(a, t, percentile) ==
    IF t = None THEN Percentile(a.pix, percentile) ELSE t

\* the band read from the file only while the object holds no grid yet
DetectLoadCached(t, percentile) ==
    /\ pc = "idle"
    /\ obj = "Sentinel1FloodDetector"
    /\ args' = [op |-> "detect", threshold |-> t, percentile |-> percentile]
    /\ threshold' = t
    /\ reached' = {"load"}
    /\ \E o \in (IF data[BandPath].kind = "array" THEN {data[BandPath]}
                  ELSE LoadBand(files[BandPath], DefaultFactor)) :
           IF o.kind = "raise"
           THEN raised' = o.exc /\ pc' = "done" /\ UNCHANGED data
           ELSE data' = [data EXCEPT ![BandPath] = o] /\ pc' = "detect"
                /\ UNCHANGED raised
    /\ UNCHANGED <<obj, files, ret>>
    /\ UNCHANGED <<prev, caller, out, locals, session, remote>>

\* data = self.band.load()
DetectLoad(t, percentile) ==
    /\ pc = "idle"
    /\ obj = "Sentinel1FloodDetector"
    /\ args' = [op |-> "detect", threshold |-> t, percentile |-> percentile]
    /\ threshold' = t
    /\ reached' = {"load"}
    /\ \E o \in LoadBand(files[BandPath], DefaultFactor) :
           IF o.kind = "raise"
           THEN raised' = o.exc /\ pc' = "done" /\ UNCHANGED data
           ELSE data' = [data EXCEPT ![BandPath] = o] /\ pc' = "detect"
                /\ UNCHANGED raised
    /\ files' = [files EXCEPT ![BandPath] = Opened(@)]
    /\ UNCHANGED <<obj, ret>>
    /\ UNCHANGED <<prev, caller, out, locals, session, remote>>

\* lines 57-66: the null check, the threshold, the second open of the file,
\* the mask
DetectMask ==
    /\ pc = "detect"
    /\ pc' = "done"
    /\ LET a == data[BandPath]
           t == DetectThreshold(a, threshold, args.percentile)
           bounds == OpenBounds(files[DetectBoundsPath])
       IN  IF a = None
           THEN ret' = Pair(None, None) /\ UNCHANGED <<threshold, raised, reached>>
           ELSE IF t.kind = "raise"
           THEN /\ raised' = t.exc
                /\ reached' = reached \cup {"threshold"}
                /\ UNCHANGED <<threshold, ret>>
           ELSE IF bounds.kind = "raise"
           THEN /\ raised' = bounds.exc
                /\ threshold' = t
                /\ reached' = reached \cup {"threshold", "bounds"}
                /\ UNCHANGED ret
           ELSE /\ ret' = Pair(Mask(a, t.v), bounds)
                /\ threshold' = t
                /\ reached' = reached \cup {"threshold", "bounds"}
                /\ UNCHANGED raised
    /\ files' = IF data[BandPath] = None
                   \/ DetectThreshold(data[BandPath], threshold, args.percentile).kind = "raise"
                THEN files
                ELSE [files EXCEPT ![DetectBoundsPath] = Opened(@)]
    /\ UNCHANGED <<obj, data, args>>
    /\ UNCHANGED <<prev, caller, out, locals, session, remote>>

---------------------------------------------------------------------------

\* detect(threshold, percentile) as callers call it: a percentile in
\* [0, 100] when the threshold is left to it, any percentile next to an
\* explicit threshold
DetectArgs ==
    ({None} \X Percentiles) \cup ({Float(Num(v)) : v \in Thresholds} \X AnyPercentiles)

Next ==
    \/ \E f \in 0..MaxFactor : Load(f)
    \/ NdviLoadRed
    \/ NdviLoadNir
    \/ NdviCompute
    \/ \E a \in DetectArgs : DetectLoad(a[1], a[2])
    \/ DetectMask

Spec == Init /\ [][Next]_vars

---------------------------------------------------------------------------
(* The files under the calls: other processes replace and remove them, and *)
(* the caller calls the same object again                                  *)

\* the versions a file is replaced with; the samples tell them apart
Versions ==
    LET wide == CHOOSE b \in Boxes : b.left = 20
        near == CHOOSE b \in Boxes : b.left = 25
    IN  {[kind |-> "raster", h |-> 1, w |-> 1, pix |-> <<Num(-1)>>, box |-> wide],
         [kind |-> "raster", h |-> 1, w |-> 2, pix |-> <<Num(1), Num(0)>>, box |-> near],
         [kind |-> "raster", h |-> 2, w |-> 1, pix |-> <<Num(0), Num(1)>>, box |-> wide]}

\* the paths the object reads
UsedPaths == IF obj = "NDVIProcessor" THEN {RedPath, NirPath} ELSE {BandPath}

InitEnv ==
    /\ obj \in {"RasterBand", "NDVIProcessor", "Sentinel1FloodDetector"}
    /\ files \in [Paths -> FailedFiles \cup Versions]
    /\ \A p \in Paths \ UsedPaths : files[p] = Missing
    /\ InitCall
    /\ caller = Direct

\* another process writes f at path p, or removes or damages the file there
Replace(p, f) ==
    /\ p \in UsedPaths
    /\ files[p] # f
    /\ files' = [files EXCEPT ![p] = f]
    /\ UNCHANGED <<obj, data, pc, args, threshold, ret, raised, reached>>
    /\ UNCHANGED <<prev, caller, out, locals, session, remote>>

\* what the caller of a finished call holds
Outcome == IF raised = "" THEN ret ELSE Raise(raised)

\* the caller takes the result; the object, its bands and their data stay
NextCall ==
    /\ pc = "done"
    /\ pc' = "idle"
    /\ prev' = Outcome
    /\ args' = NoArgs
    /\ threshold' = Pending
    /\ ret' = Pending
    /\ raised' = ""
    /\ reached' = {}
    /\ UNCHANGED <<obj, files, data, caller, out, locals, session, remote>>

\* the files change between the calls only
NextSeq ==
    \/ Next
    \/ NextCall
    \/ pc = "idle" /\ \E p \in Paths, f \in FailedFiles \cup Versions : Replace(p, f)

SpecSeq == InitEnv /\ [][NextSeq]_vars

\* the files change at any moment, during a call too
NextEnv ==
    \/ Next
    \/ NextCall
    \/ \E p \in Paths, f \in FailedFiles \cup Versions : Replace(p, f)

SpecEnv == InitEnv /\ [][NextEnv]_vars

---------------------------------------------------------------------------
(* Two invocations of detect at once, on two Sentinel1FloodDetector objects *)
(* over two files: here obj, pc, args, threshold, ret, raised and reached   *)
(* hold one value per invocation                                           *)

Procs == {1, 2}
Other(i) == IF i = 1 THEN 2 ELSE 1

\* the path detector i was constructed with
PathOf(i) == IF i = 1 THEN "a.tif" ELSE "b.tif"

\* one band object for all detectors
BandOfShared(i) == BandPath

\* self.band = RasterBand(path): the band object of detector i
BandOf(i) == PathOf(i)

InitPar ==
    /\ obj = [i \in Procs |-> "Sentinel1FloodDetector"]
    /\ files \in [Paths -> FailedFiles \cup Versions]
    /\ data = [p \in Paths |-> None]
    /\ pc = [i \in Procs |-> "idle"]
    /\ args = [i \in Procs |-> NoArgs]
    /\ threshold = [i \in Procs |-> Pending]
    /\ ret = [i \in Procs |-> Pending]
    /\ raised = [i \in Procs |-> ""]
    /\ reached = [i \in Procs |-> {}]
    /\ prev = Pending
    /\ out = Pending
    /\ locals = Unused
    /\ session = Unused
    /\ remote = Unused
    /\ caller = Direct

\* the step is taken while the other invocation is between its steps
Overlap(i) == IF pc[Other(i)] = "detect" THEN {"overlap"} ELSE {}

\* data = self.band.load() of invocation i
ParDetectLoad(i, t, percentile) ==
    /\ pc[i] = "idle"
    /\ args' = [args EXCEPT ![i] = [op |-> "detect", threshold |-> t,
                                    percentile |-> percentile]]
    /\ threshold' = [threshold EXCEPT ![i] = t]
    /\ reached' = [reached EXCEPT ![i] = {"load"} \cup Overlap(i)]
    /\ \E o \in LoadBand(files[PathOf(i)], DefaultFactor) :
           IF o.kind = "raise"
           THEN /\ raised' = [raised EXCEPT ![i] = o.exc]
                /\ pc' = [pc EXCEPT ![i] = "done"]
                /\ UNCHANGED data
           ELSE /\ data' = [data EXCEPT ![BandOf(i)] = o]
                /\ pc' = [pc EXCEPT ![i] = "detect"]
                /\ UNCHANGED raised
    /\ files' = [files EXCEPT ![PathOf(i)] = Opened(@)]
    /\ UNCHANGED <<obj, ret>>
    /\ UNCHANGED <<prev, caller, out, locals, session, remote>>

\* lines 57-66 of invocation i
ParDetectMask(i) ==
    /\ pc[i] = "detect"
    /\ pc' = [pc EXCEPT ![i] = "done"]
    /\ LET a == data[BandOf(i)]
           t == DetectThreshold(a, threshold[i], args[i].percentile)
           bounds == OpenBounds(files[PathOf(i)])
           steps == reached[i] \cup Overlap(i)
       IN  IF a = None
           THEN /\ ret' = [ret EXCEPT ![i] = Pair(None, None)]
                /\ reached' = [reached EXCEPT ![i] = steps]
                /\ UNCHANGED <<threshold, raised>>
           ELSE IF t.kind = "raise"
           THEN /\ raised' = [raised EXCEPT ![i] = t.exc]
                /\ reached' = [reached EXCEPT ![i] = steps \cup {"threshold"}]
                /\ UNCHANGED <<threshold, ret>>
           ELSE IF bounds.kind = "raise"
           THEN /\ raised' = [raised EXCEPT ![i] = bounds.exc]
                /\ threshold' = [threshold EXCEPT ![i] = t]
                /\ reached' = [reached EXCEPT ![i] = steps \cup {"threshold", "bounds"}]
                /\ UNCHANGED ret
           ELSE /\ ret' = [ret EXCEPT ![i] = Pair(Mask(a, t.v), bounds)]
                /\ threshold' = [threshold EXCEPT ![i] = t]
                /\ reached' = [reached EXCEPT ![i] = steps \cup {"threshold", "bounds"}]
                /\ UNCHANGED raised
    /\ files' = IF data[BandOf(i)] = None
                   \/ DetectThreshold(data[BandOf(i)], threshold[i], args[i].percentile).kind = "raise"
                THEN files
                ELSE [files EXCEPT ![PathOf(i)] = Opened(@)]
    /\ UNCHANGED <<obj, data, args>>
    /\ UNCHANGED <<prev, caller, out, locals, session, remote>>

NextPar ==
    \/ \E i \in Procs, t \in {None} \cup {Float(Num(v)) : v \in Thresholds},
          q \in Percentiles : ParDetectLoad(i, t, q)
    \/ \E i \in Procs : ParDetectMask(i)

SpecPar == InitPar /\ [][NextPar]_vars

---------------------------------------------------------------------------
(* The callers of the core: the /ndvi and /flood endpoints of safe_ro_api   *)
(* and the four Local Analysis buttons of main_app                         *)

ApiCallers == {"/ndvi", "/flood"}
CloudCallers == {"cloud_ndvi", "cloud_flood"}
ManualCallers == {"manual_ndvi", "manual_flood"}
Callers == ApiCallers \cup CloudCallers \cup ManualCallers

\* the processor the caller constructs
ClassOf(c) ==
    IF c \in {"/ndvi", "cloud_ndvi", "manual_ndvi"}
    THEN "NDVIProcessor" ELSE "Sentinel1FloodDetector"

\* a JSON object of one key
Json(key, value) == [kind |-> "json", key |-> key, value |-> value]

\* what the dashboard page shows: the st.error messages, the subheader, the
\* folium map and its raster overlay
Page(errors, subheader, map, overlay) ==
    [kind |-> "page", errors |-> errors, subheader |-> subheader,
     map |-> map, overlay |-> overlay]

RECURSIVE Total(_, _)
\* the sum of the first n samples
Total(pix, n) == IF n = 0 THEN Num(0) ELSE Add(Total(pix, n - 1), pix[n])

\* ndvi.min(), ndvi.max(), ndvi.mean()
Stats(a) ==
    [min |-> CHOOSE v \in {a.pix[k] : k \in DOMAIN a.pix} :
                 \A k \in DOMAIN a.pix : ~Lt(a.pix[k], v),
     max |-> CHOOSE v \in {a.pix[k] : k \in DOMAIN a.pix} :
                 \A k \in DOMAIN a.pix : ~Lt(v, a.pix[k]),
     mean |-> Div(Total(a.pix, Len(a.pix)), Num(Len(a.pix)))]

\* mask.mean() * 100.0
FloodedPercent(m) ==
    <<100 * Cardinality({k \in DOMAIN m.pix : m.pix[k] = 1}), Len(m.pix)>>

\* the bounds dereferenced without a test
MapBoundsUnchecked(bounds) ==
    IF bounds.kind = "BoundingBox"
    THEN [kind |-> "map_bounds", sw |-> <<bounds.bottom, bounds.left>>,
          ne |-> <<bounds.top, bounds.right>>]
    ELSE Raise("AttributeError")

\* map_bounds of create_folium_map: bounds is a sequence of four or has
\* .left (rasterio's BoundingBox is both); anything else is invalid
MapBounds(bounds) ==
    IF bounds.kind = "BoundingBox"
    THEN [kind |-> "map_bounds", sw |-> <<bounds.bottom, bounds.left>>,
          ne |-> <<bounds.top, bounds.right>>]
    ELSE None

\* create_folium_map(data, bounds, data_type) under the subheader shown
\* before it; an exception raised while the bounds are read leaves it
CreateFoliumMap(d, bounds, subheader) ==
    LET map_bounds == MapBounds(bounds)
    IN  IF map_bounds = None
        THEN Page({"Invalid bounds provided for map display."}, subheader, FALSE, FALSE)
        ELSE IF map_bounds = Raise("AttributeError")
        THEN map_bounds
        ELSE Page({}, subheader, TRUE, d # None /\ Len(d.pix) > 0)

\* ndvi_endpoint and flood_endpoint: the object returned for the result r
ApiAnswer(c, r) ==
    IF r.grid # None
    THEN IF c = "/ndvi" THEN Json("stats", Stats(r.grid))
         ELSE Json("flooded_area_percent", FloodedPercent(r.grid))
    ELSE IF c = "/ndvi" THEN Json("error", "Could not compute NDVI")
         ELSE Json("error", "Could not compute flood mask")

\* the cloud tab: the result handed to create_folium_map as it is
CloudAnswer(c, r) == CreateFoliumMap(r.grid, r.bounds, "")

\* the manual tab: if ndvi is not None / if flood_mask is not None
ManualAnswer(c, r) ==
    IF r.grid # None
    THEN CreateFoliumMap(r.grid, r.bounds,
                         IF c = "manual_ndvi" THEN "NDVI Analysis Map"
                         ELSE "Flood Analysis Map")
    ELSE Page({IF c = "manual_ndvi" THEN "Could not compute NDVI."
               ELSE "Could not compute flood mask."}, "", FALSE, FALSE)

\* the request paths of the API name any file; the dashboard's temporary
\* files exist, holding whatever was downloaded or uploaded
InitCallers ==
    /\ caller \in Callers
    /\ obj = ClassOf(caller)
    /\ files \in [Paths -> (IF caller \in ApiCallers THEN FailedFiles ELSE {Corrupt})
                             \cup Versions]
    /\ \A p \in Paths \ UsedPaths : files[p] = Missing
    /\ InitCall

\* the caller's part after the core call: the answer, and on the dashboard
\* the finally block that removes the temporary files
Answer ==
    /\ pc = "done"
    /\ caller \in Callers
    /\ pc' = "answered"
    /\ out' = IF raised # "" THEN Raise(raised)
              ELSE IF caller \in ApiCallers THEN ApiAnswer(caller, ret)
              ELSE IF caller \in CloudCallers THEN CloudAnswer(caller, ret)
              ELSE ManualAnswer(caller, ret)
    /\ files' = IF caller \in ApiCallers THEN files
                ELSE [p \in Paths |-> IF p \in UsedPaths THEN Missing ELSE files[p]]
    /\ UNCHANGED <<obj, data, args, threshold, ret, raised, reached, prev, caller>>
    /\ UNCHANGED <<locals, session, remote>>

\* det.detect(threshold=req.threshold) of the API, proc.detect() of the
\* dashboard
CallerThresholds ==
    IF caller \in ApiCallers THEN {None} \cup {Float(Num(v)) : v \in Thresholds}
    ELSE {None}

NextCallers ==
    \/ NdviLoadRed
    \/ NdviLoadNir
    \/ NdviCompute
    \/ \E t \in CallerThresholds : DetectLoad(t, DefaultPercentile)
    \/ DetectMask
    \/ Answer

SpecCallers == InitCallers /\ [][NextCallers]_vars

---------------------------------------------------------------------------
(* The dashboard scripts main_app.py and safe-ro-app.py: one script run per *)
(* action, over st.session_state and the satellite feeds.  Here obj is the  *)
(* script, locals holds the widget values and local variables of the last   *)
(* run, reached the data functions it called, raised the exception that     *)
(* ended it and out the page it rendered.  In safe-ro-app the folder of the  *)
(* region lists a RED/NIR pair and a radar image.                           *)

Apps == {"main_app", "safe-ro-app"}

\* the choices of the sidebar radio
Modes(app) ==
    {"Home", "Citizen App", "Authority Dashboard"}
        \cup (IF app = "main_app" THEN {"Local Analysis"} ELSE {})

\* the password the Login branch compares with
AdminPassword == "admin123"
\* what the user types in the password field
Passwords == {"", "admin", AdminPassword}

\* st.session_state of a new browser session
NewSession == [kind |-> "session_state"]
\* "key" in st.session_state
HasKey(s, k) == k \in DOMAIN s
\* st.session_state.key = v
SetKey(s, k, v) == [x \in DOMAIN s \cup {k} |-> IF x = k THEN v ELSE s[x]]

\* what a satellite feed holds for the region and the dates: nothing, an
\* image that cannot be read, or a one-pixel image
Feeds == {None, Corrupt, Array(1, 1, <<Num(0)>>)}
FeedStates == {[kind |-> "feeds", s2 |-> a, s1 |-> b] : a, b \in Feeds}

\* gee_bounds_format: [left, bottom, right, top] of the downloaded GeoTIFF
GeeBounds == [kind |-> "list", left |-> 20, bottom |-> 43, right |-> 30, top |-> 48]

\* GEEClient.get_ndvi: (ndvi_array, bounds), and (None, None) when the
\* collection is empty or an exception was caught
GetNdvi(feed) ==
    IF feed.kind = "array" THEN Pair(feed, GeeBounds) ELSE Pair(None, None)

\* GEEClient.get_flood_data: (flood_array, bounds) or (None, None)
GetFloodData(feed) ==
    IF feed.kind = "array" THEN Pair(feed, GeeBounds) ELSE Pair(None, None)

\* process_data and process_radar of safe-ro-app: the core's pair, None when
\* the download raised
ProcessData(feed) ==
    IF feed = None THEN None
    ELSE IF feed.kind = "array" THEN Pair(feed, CHOOSE b \in Boxes : b.left = 20)
    ELSE Pair(None, None)

\* what an analysis button stores in dash_data
Analysis(app, type, feeds) ==
    IF app = "main_app"
    THEN IF type = "ndvi" THEN GetNdvi(feeds.s2) ELSE GetFloodData(feeds.s1)
    ELSE IF type = "ndvi" THEN ProcessData(feeds.s2) ELSE ProcessData(feeds.s1)

\* the labels of the two analysis buttons of the Command Center
AnalysisButton(app, type) ==
    IF app = "main_app"
    THEN IF type = "ndvi" THEN "Analyze Vegetation Health" ELSE "Analyze Flood Risk"
    ELSE IF type = "ndvi" THEN "Analyze Optical Data" ELSE "Analyze Radar Data"

Drawn(map, overlay, exc) == [map |-> map, overlay |-> overlay, raised |-> exc]
NoMap == Drawn(FALSE, FALSE, "")

\* create_folium_map(data, current_bbox, data_type) of main_app and
\* display_map(data, current_bbox, type) of safe-ro-app, current_bbox being
\* a list of four: the outcomes.  A tuple has no .size, cannot be added to
\* 1 and is no image for a colormap.
DrawMap(app, d, type) ==
    IF d = None THEN {Drawn(TRUE, FALSE, "")}
    ELSE IF d.kind = "array"
    THEN {Drawn(TRUE, IF app = "main_app" THEN Len(d.pix) > 0 ELSE TRUE, "")}
    ELSE IF app = "main_app" THEN {Drawn(FALSE, FALSE, "AttributeError")}
    ELSE IF type = "ndvi" THEN {Drawn(FALSE, FALSE, "TypeError")}
    ELSE {Drawn(FALSE, FALSE, "TypeError"), Drawn(FALSE, FALSE, "ValueError")}

\* the page a run rendered
Screen(mode, title, buttons, errors, warnings, drawn) ==
    [kind |-> "screen", mode |-> mode, title |-> title, buttons |-> buttons,
     errors |-> errors, warnings |-> warnings,
     map |-> drawn.map, overlay |-> drawn.overlay]

\* a button returns True in the run its click started: the button was on
\* the page of the previous run, in the same mode
Clicks(mode) ==
    {"none"} \cup (IF pc = "idle" /\ out.kind = "screen" /\ out.mode = mode
                   THEN out.buttons ELSE {})

InitDash ==
    /\ obj \in Apps
    /\ session = NewSession
    /\ remote \in FeedStates
    /\ pc = "idle"
    /\ locals = Pending
    /\ out = Pending
    /\ raised = ""
    /\ reached = {}
    /\ files = [p \in Paths |-> Missing]
    /\ data = [p \in Paths |-> None]
    /\ args = NoArgs
    /\ threshold = Pending
    /\ ret = Pending
    /\ prev = Pending
    /\ caller = "browser"

\* a run in Home mode: the mini-map without data
RunHome ==
    /\ pc = "idle"
    /\ \E drawn \in DrawMap(obj, None, "ndvi") :
          /\ out' = Screen("Home", "Welcome to SAFE-RO", {}, {}, {}, drawn)
          /\ raised' = drawn.raised
    /\ locals' = [kind |-> "run", mode |-> "Home"]
    /\ reached' = {}
    /\ UNCHANGED <<pc, session>>
    /\ UNCHANGED <<obj, files, data, args, threshold, ret, prev, caller, remote>>

\* the Citizen App branch of main_app up to the map
CitizenMain(show_sat, feeds) ==
    LET first == IF show_sat THEN GetNdvi(feeds.s2) ELSE None
        fallback == show_sat /\ first = None
        map_data == IF fallback THEN GetFloodData(feeds.s1) ELSE first
    IN  [map_data |-> map_data,
         map_type |-> IF fallback THEN "water" ELSE "ndvi",
         warnings |-> IF fallback
                      THEN {"No Sentinel-2 data found. Trying Sentinel-1 for floods."}
                      ELSE {},
         errors |-> IF show_sat /\ map_data = None
                    THEN {"No data found for the selected region and date range."}
                    ELSE {},
         calls |-> (IF show_sat THEN {"get_ndvi"} ELSE {})
                       \cup (IF fallback THEN {"get_flood_data"} ELSE {})]

\* the Citizen App branch of safe-ro-app up to the map: reds and nirs are
\* listed, so the radar branch is not taken
CitizenDrive(show_sat, feeds) ==
    [map_data |-> IF show_sat THEN ProcessData(feeds.s2) ELSE None,
     map_type |-> "ndvi",
     warnings |-> {},
     errors |-> {},
     calls |-> IF show_sat THEN {"process_data"} ELSE {}]

\* a run in Citizen App mode with the overlay toggle on or off
RunCitizen(show_sat) ==
    /\ pc = "idle"
    /\ LET c == IF obj = "main_app" THEN CitizenMain(show_sat, remote)
                ELSE CitizenDrive(show_sat, remote)
       IN  /\ \E drawn \in DrawMap(obj, c.map_data, c.map_type) :
                 /\ out' = Screen("Citizen App", "Alert System", {}, c.errors,
                                  c.warnings, drawn)
                 /\ raised' = drawn.raised
           /\ locals' = [kind |-> "run", mode |-> "Citizen App",
                         show_sat |-> show_sat, map_data |-> c.map_data,
                         map_type |-> c.map_type]
           /\ reached' = c.calls
    /\ UNCHANGED <<pc, session>>
    /\ UNCHANGED <<obj, files, data, args, threshold, ret, prev, caller, remote>>

\* the password does not matter
PasswordOkAny(pwd) == TRUE

\* pwd == "admin123"
PasswordOk(pwd) == pwd = AdminPassword

\* the Command Center of an authenticated run: the clicked analysis button
\* stores its result, and the map of dash_data is drawn when there is one
CommandCenter(s, click) ==
    LET type == IF click = AnalysisButton(obj, "ndvi") THEN "ndvi" ELSE "water"
        s2 == IF click = "none" THEN s
              ELSE SetKey(SetKey(s, "dash_data", Analysis(obj, type, remote)),
                          "dash_type", type)
        errors == IF click # "none" /\ obj = "main_app" /\ s2.dash_data = None
                  THEN {IF type = "ndvi" THEN "Could not retrieve Sentinel-2 data."
                        ELSE "Could not retrieve Sentinel-1 data."}
                  ELSE {}
    IN  /\ session' = s2
        /\ pc' = "idle"
        /\ reached' = IF click = "none" THEN {} ELSE {type}
        /\ \E drawn \in (IF HasKey(s2, "dash_data")
                         THEN DrawMap(obj, s2.dash_data, s2.dash_type)
                         ELSE {NoMap}) :
              /\ out' = Screen("Authority Dashboard", "Command Center",
                               {AnalysisButton(obj, "ndvi"), AnalysisButton(obj, "water")},
                               errors, {}, drawn)
              /\ raised' = drawn.raised

\* the login form of a run that is not authenticated; st.rerun() ends the
\* run of a correct password at once and starts the next
Restricted(s, pwd, click) ==
    /\ session' = IF click = "Login" /\ PasswordOk(pwd)
                  THEN SetKey(s, "auth", TRUE) ELSE s
    /\ pc' = IF click = "Login" /\ PasswordOk(pwd) THEN "rerun" ELSE "idle"
    /\ reached' = {}
    /\ raised' = ""
    /\ out' = Screen("Authority Dashboard", "Restricted Access", {"Login"},
                     IF click = "Login" /\ ~PasswordOk(pwd)
                     THEN {"Invalid Password"} ELSE {},
                     {}, NoMap)

\* a run in Authority Dashboard mode
RunAuthority(pwd, click) ==
    /\ pc \in {"idle", "rerun"}
    /\ click \in Clicks("Authority Dashboard")
    /\ LET s == IF HasKey(session, "auth") THEN session
                ELSE SetKey(session, "auth", FALSE)
       IN  IF ~s.auth THEN Restricted(s, pwd, click)
           ELSE CommandCenter(s, click)
    /\ locals' = [kind |-> "run", mode |-> "Authority Dashboard",
                  pwd |-> pwd, click |-> click]
    /\ UNCHANGED <<obj, files, data, args, threshold, ret, prev, caller, remote>>

\* a run of main_app in Local Analysis mode with no analysis button clicked
RunLocal ==
    /\ pc = "idle"
    /\ obj = "main_app"
    /\ out' = Screen("Local Analysis", "Local Analysis", {}, {}, {}, NoMap)
    /\ raised' = ""
    /\ locals' = [kind |-> "run", mode |-> "Local Analysis"]
    /\ reached' = {}
    /\ UNCHANGED <<pc, session>>
    /\ UNCHANGED <<obj, files, data, args, threshold, ret, prev, caller, remote>>

\* the satellites pass: the feeds change between the runs
Acquire(feeds) ==
    /\ pc = "idle"
    /\ remote # feeds
    /\ remote' = feeds
    /\ UNCHANGED <<obj, files, data, pc, args, threshold, ret, raised, reached,
                   prev, caller, out, locals, session>>

NextDash ==
    \/ RunHome
    \/ \E show_sat \in BOOLEAN : RunCitizen(show_sat)
    \/ \E pwd \in Passwords, click \in {"none", "Login"} \cup
              {AnalysisButton(obj, t) : t \in {"ndvi", "water"}} :
           RunAuthority(pwd, click)
    \/ RunLocal
    \/ \E feeds \in FeedStates : Acquire(feeds)

SpecDash == InitDash /\ [][NextDash]_vars

---------------------------------------------------------------------------
(* A Local Analysis action of main_app from the click on: the downloads or  *)
(* the upload that create the temporary files, the core call, the answer    *)
(* and the finally block.  Here files is the temporary directory, remote    *)
(* what the Drive files or the uploads hold, locals the paths that          *)
(* download_file returned.                                                  *)

\* what a Drive file or an uploaded file holds
SourceFiles == Versions \cup {Corrupt}
Sources == {[kind |-> "sources", red |-> a, nir |-> b] : a, b \in SourceFiles}

\* the file NamedTemporaryFile(delete=False) leaves when nothing was written
\* to it: no raster
EmptyFile == Corrupt

\* a path string
PathValue(p) == [kind |-> "str", v |-> p]

InitLocal ==
    /\ caller \in CloudCallers \cup ManualCallers
    /\ obj = ClassOf(caller)
    /\ files = [p \in Paths |-> Missing]
    /\ remote \in Sources
    /\ pc = "clicked"
    /\ locals = [kind |-> "paths", red |-> None, nir |-> None]
    /\ session = Unused
    /\ data = [p \in Paths |-> None]
    /\ args = NoArgs
    /\ threshold = Pending
    /\ ret = Pending
    /\ raised = ""
    /\ reached = {}
    /\ prev = Pending
    /\ out = Pending

\* GDriveClient.download_file: the temporary file is created, then
\* GetContentFile fills it and the path is returned, or raises and None is
\* returned after st.error
DownloadFile(source, path, ok) ==
    [file |-> IF ok THEN source ELSE EmptyFile,
     path |-> IF ok THEN PathValue(path) ELSE None,
     page |-> IF ok THEN out ELSE Page({"Failed to download"}, "", FALSE, FALSE)]

\* path_red = download_file(...) of the NDVI button, path_radar = ... of the
\* flood button
DownloadRed(ok) ==
    /\ pc = "clicked"
    /\ caller \in CloudCallers
    /\ LET d == DownloadFile(remote.red, RedPath, ok)
       IN  /\ files' = [files EXCEPT ![RedPath] = d.file]
           /\ locals' = [locals EXCEPT !.red = d.path]
           /\ out' = d.page
    /\ pc' = IF caller = "cloud_ndvi" THEN "download_nir" ELSE "downloaded"
    /\ UNCHANGED <<obj, data, args, threshold, ret, raised, reached, prev,
                   caller, session, remote>>

\* path_nir = download_file(...)
DownloadNir(ok) ==
    /\ pc = "download_nir"
    /\ LET d == DownloadFile(remote.nir, NirPath, ok)
       IN  /\ files' = [files EXCEPT ![NirPath] = d.file]
           /\ locals' = [locals EXCEPT !.nir = d.path]
           /\ out' = d.page
    /\ pc' = "downloaded"
    /\ UNCHANGED <<obj, data, args, threshold, ret, raised, reached, prev,
                   caller, session, remote>>

\* if path_red and path_nir: / if path_radar: the try block is entered with
\* every path, and the action is over without one
Proceed ==
    /\ pc = "downloaded"
    /\ pc' = IF /\ locals.red # None
                /\ caller = "cloud_ndvi" => locals.nir # None
             THEN "idle" ELSE "answered"
    /\ UNCHANGED <<obj, files, data, args, threshold, ret, raised, reached,
                   prev, caller, out, locals, session, remote>>

\* the manual tab: with both uploads there (the one upload of the flood
\* button) the temporary files are written, without them a warning is shown
Upload(present) ==
    /\ pc = "clicked"
    /\ caller \in ManualCallers
    /\ IF present
       THEN /\ files' = [p \in Paths |->
                            IF p \notin UsedPaths THEN files[p]
                            ELSE IF p = RedPath THEN remote.red ELSE remote.nir]
            /\ locals' = [locals EXCEPT
                              !.red = PathValue(RedPath),
                              !.nir = IF caller = "manual_ndvi"
                                      THEN PathValue(NirPath) ELSE None]
            /\ pc' = "idle"
            /\ UNCHANGED out
       ELSE /\ out' = Page({"Please upload"}, "", FALSE, FALSE)
            /\ pc' = "answered"
            /\ UNCHANGED <<files, locals>>
    /\ UNCHANGED <<obj, data, args, threshold, ret, raised, reached, prev,
                   caller, session, remote>>

NextLocal ==
    \/ \E ok \in BOOLEAN : DownloadRed(ok)
    \/ \E ok \in BOOLEAN : DownloadNir(ok)
    \/ Proceed
    \/ \E present \in BOOLEAN : Upload(present)
    \/ NdviLoadRed
    \/ NdviLoadNir
    \/ NdviCompute
    \/ DetectLoad(None, DefaultPercentile)
    \/ DetectMask
    \/ Answer

SpecLocal == InitLocal /\ [][NextLocal]_vars

---------------------------------------------------------------------------
(* The product download of SmartDownloader.find_and_process_latest          *)
(* (src/cloud_manager.py) and of HybridDownloader._download_and_extract     *)
(* (src/scripts/safe_ro_cloud.py), from the resumable loop to the returned  *)
(* list.  Here obj is the class, args the mode, remote the product on the   *)
(* server, files the download directory, locals the variables of the loop   *)
(* and ret the returned list.  The server honours Range requests.           *)

\* length of the product ZIP, in bytes
MaxBytes == 3
\* most members of the product ZIP
MaxMembers == 2

\* while ... and retries < 20
MaxRetries == 20

Downloaders == {"SmartDownloader", "HybridDownloader"}

\* the bytes of the ZIP on the server, each one different
Content == [i \in 1..MaxBytes |-> i]

\* a member of the ZIP, by the parts of its file name the extraction tests
Member(dir, band, ext) == [dir |-> dir, band |-> band, ext |-> ext]
MemberNames ==
    {Member("R10m", "_B04_", ".jp2"), Member("R20m", "_B04_", ".jp2"),
     Member("R60m", "_B04_", ".jp2"), Member("R10m", "_B08_", ".jp2"),
     Member("R10m", "_B02_", ".jp2"), Member("R10m", "_B08_", ".xml"),
     Member("measurement", "-vv-", ".tiff")}

\* the products: the members of a ZIP have different names
Products ==
    {[kind |-> "product", content |-> Content, members |-> ms] :
        ms \in UNION {{m \in [1..n -> MemberNames] :
                          \A j, k \in 1..n : m[j] = m[k] => j = k} :
                      n \in 0..MaxMembers}}

ZipPath == "product.zip"
TargetPaths == {"RED.jp2", "NIR.jp2", "VV.tiff"}

\* a file of the download directory
Bytes(b) == [kind |-> "bytes", b |-> b]
Extracted(m) == [kind |-> "extracted", member |-> m]

\* a Python list
List(s) == [kind |-> "list", v |-> s]

\* os.path.getsize(zip_path) if os.path.exists(zip_path) else 0
CurrentSize(f) == IF f = Missing THEN 0 ELSE Len(f.b)

\* the request always names the first byte
RangeStartZero(curr) == 0

\* headers['Range'] = f"bytes={current_size}-"
RangeStart(curr) == curr

\* the Range header of the request, none for an empty or missing file
RangeOf(curr) == IF curr > 0 THEN <<RangeStart(curr)>> ELSE <<>>
\* mode = 'wb', and 'ab' when current_size > 0
ModeOf(curr) == IF curr > 0 THEN "ab" ELSE "wb"

\* the answer of a server that honours Range: the whole content, the rest
\* of it from the first byte asked for, or 416 when there is no such byte
ServerAnswer(range, content) ==
    IF range = <<>> THEN [status |-> 200, body |-> content]
    ELSE IF range[1] >= Len(content) THEN [status |-> 416, body |-> <<>>]
    ELSE [status |-> 206, body |-> SubSeq(content, range[1] + 1, Len(content))]

\* open(zip_path, mode) and the k bytes written through it
Written(f, mode, body, k) ==
    Bytes((IF mode = "ab" THEN f.b ELSE <<>>) \o SubSeq(body, 1, k))

\* zipfile.is_zipfile / zipfile.ZipFile opens it: the file ends with the
\* central directory, which only the whole content does
IsZipFile(f, product) == f # Missing /\ f.b = product.content

InitDownload ==
    /\ obj \in Downloaders
    /\ args \in {[op |-> "download", mode |-> m] :
                    m \in IF obj = "SmartDownloader" THEN {"S2"} ELSE {"S2", "S1"}}
    /\ remote \in Products
    /\ files \in {[p \in {ZipPath} \cup TargetPaths |->
                      IF p = ZipPath THEN z ELSE Missing] :
                    z \in {Missing} \cup {Bytes(SubSeq(Content, 1, n)) : n \in 0..MaxBytes}}
    /\ pc = "start"
    /\ locals = [kind |-> "download", download_complete |-> FALSE, retries |-> 0,
                 current_size |-> 0, range |-> <<>>, mode |-> "wb", status |-> 0]
    /\ ret = Pending
    /\ raised = ""
    /\ reached = {}
    /\ data = [p \in Paths |-> None]
    /\ threshold = Pending
    /\ prev = Pending
    /\ out = Pending
    /\ session = Unused
    /\ caller = "main"

\* HybridDownloader skips the download when the local ZIP is whole;
\* SmartDownloader always enters the loop
Start ==
    /\ pc = "start"
    /\ pc' = IF obj = "HybridDownloader" /\ IsZipFile(files[ZipPath], remote)
             THEN "extract" ELSE "loop"
    /\ UNCHANGED <<obj, files, data, args, threshold, ret, raised, reached,
                   prev, caller, out, locals, session, remote>>

\* the loop without the cap on the retries
LoopConditionUncapped == ~locals.download_complete

\* while not download_complete and retries < 20: / while not downloaded:
LoopCondition ==
    /\ ~locals.download_complete
    /\ obj = "SmartDownloader" => locals.retries < MaxRetries

\* one pass through the try block.  The request gets no good answer
\* (answered = FALSE: no connection, a timeout, an error status), or 416, or
\* a body of which k bytes are written before the transfer is cut; the
\* whole body written completes the download.
Attempt(answered, k) ==
    /\ pc = "loop"
    /\ LoopCondition
    /\ LET curr == CurrentSize(files[ZipPath])
           range == RangeOf(curr)
           mode == ModeOf(curr)
           r == ServerAnswer(range, remote.content)
           sent == [locals EXCEPT !.current_size = curr, !.range = range,
                                  !.mode = mode]
       IN  IF ~answered
           THEN /\ k = 0
                /\ locals' = [sent EXCEPT !.status = 0]
                /\ pc' = "except"
                /\ UNCHANGED files
           ELSE IF r.status = 416
           THEN /\ k = 0
                /\ locals' = [sent EXCEPT !.status = r.status]
                /\ pc' = "extract"
                /\ UNCHANGED files
           ELSE /\ k \in 0..Len(r.body)
                /\ files' = [files EXCEPT ![ZipPath] = Written(@, mode, r.body, k)]
                /\ locals' = [sent EXCEPT !.status = r.status,
                                          !.download_complete = (k = Len(r.body))]
                /\ pc' = IF k = Len(r.body) THEN "loop" ELSE "except"
    /\ UNCHANGED <<obj, data, args, threshold, ret, raised, reached, prev,
                   caller, out, session, remote>>

\* the except branch: time.sleep(5), and retries += 1 in SmartDownloader
Except ==
    /\ pc = "except"
    /\ locals' = IF obj = "SmartDownloader"
                 THEN [locals EXCEPT !.retries = @ + 1] ELSE locals
    /\ pc' = "loop"
    /\ UNCHANGED <<obj, files, data, args, threshold, ret, raised, reached,
                   prev, caller, out, session, remote>>

\* the loop condition is false
LoopExit ==
    /\ pc = "loop"
    /\ ~LoopCondition
    /\ pc' = "extract"
    /\ UNCHANGED <<obj, files, data, args, threshold, ret, raised, reached,
                   prev, caller, out, locals, session, remote>>

\* the target of a member, "" for a member that is not extracted
Target(m, mode) ==
    IF mode = "S2"
    THEN IF m.band \in {"_B04_", "_B08_"} /\ m.ext = ".jp2" /\ m.dir # "R60m"
         THEN IF m.band = "_B04_" THEN "RED.jp2" ELSE "NIR.jp2"
         ELSE ""
    ELSE IF m.dir = "measurement" /\ m.band = "-vv-" /\ m.ext = ".tiff"
         THEN "VV.tiff"
         ELSE ""

RECURSIVE Appended(_, _, _)
\* extracted_files after the first n members
Appended(members, n, mode) ==
    IF n = 0 THEN <<>>
    ELSE IF Target(members[n], mode) = "" THEN Appended(members, n - 1, mode)
    ELSE Append(Appended(members, n - 1, mode), Target(members[n], mode))

\* the target files after the first n members: each holds the last member
\* written to it
Unzipped(fs, members, n, mode) ==
    [p \in DOMAIN fs |->
        LET ks == {k \in 1..n : Target(members[k], mode) = p}
        IN  IF ks = {} THEN fs[p]
            ELSE Extracted(members[CHOOSE k \in ks : \A j \in ks : j <= k])]

\* the extraction: ZipFile raises on a missing or incomplete ZIP; fail_at is
\* the member whose read or write raises, 0 when none does.  An exception
\* makes SmartDownloader return [] and HybridDownloader the list so far;
\* SmartDownloader removes the ZIP after a full extraction.
Extract(fail_at) ==
    /\ pc = "extract"
    /\ fail_at \in 0..Len(remote.members)
    /\ fail_at # 0 => Target(remote.members[fail_at], args.mode) # ""
    /\ IF ~IsZipFile(files[ZipPath], remote)
       THEN /\ fail_at = 0
            /\ ret' = List(<<>>)
            /\ reached' = {}
            /\ UNCHANGED files
       ELSE LET n == IF fail_at = 0 THEN Len(remote.members) ELSE fail_at - 1
                done == Unzipped(files, remote.members, n, args.mode)
            IN  /\ reached' = {k \in 1..n : Target(remote.members[k], args.mode) # ""}
                /\ IF fail_at # 0
                   THEN /\ files' = [done EXCEPT
                                       ![Target(remote.members[fail_at], args.mode)] =
                                           Bytes(<<>>)]
                        /\ ret' = IF obj = "SmartDownloader" THEN List(<<>>)
                                  ELSE List(Appended(remote.members, n, args.mode))
                   ELSE /\ files' = IF obj = "SmartDownloader"
                                    THEN [done EXCEPT ![ZipPath] = Missing]
                                    ELSE done
                        /\ ret' = List(Appended(remote.members, n, args.mode))
    /\ pc' = "returned"
    /\ UNCHANGED <<obj, data, args, threshold, raised, prev, caller, out,
                   locals, session, remote>>

NextDownload ==
    \/ Start
    \/ \E answered \in BOOLEAN, k \in 0..MaxBytes : Attempt(answered, k)
    \/ Except
    \/ LoopExit
    \/ \E fail_at \in 0..MaxMembers : Extract(fail_at)

SpecDownload == InitDownload /\ [][NextDownload]_vars

\* the interpreter goes on running the function: a step that can be taken
\* is taken
SpecDownloadFair == SpecDownload /\ WF_vars(NextDownload)

---------------------------------------------------------------------------
(* DriveManager.upload_file (src/cloud_manager.py and                       *)
(* src/scripts/safe_ro_cloud.py) called again and again on one Drive        *)
(* folder.  Here remote is the folder, a sequence of files whose position   *)
(* is their id, args the name the call uploads under, locals the loop       *)
(* variable and the number of calls made, ret the returned id.              *)

\* most calls of upload_file in a run
MaxCalls == 2

\* max_retries = 3 / for i in range(3)
MaxUploadRetries == 3

\* the names the files are uploaded under
UploadNames == {"RED.jp2", "NIR.jp2"}

DriveFile(title, trashed) == [title |-> title, trashed |-> trashed]
Folder(fs) == [kind |-> "folder", files |-> fs]

\* a file id
Id(i) == [kind |-> "id", v |-> i]

\* title='...' and '<folder>' in parents and trashed=false
Existing(folder, name) ==
    {i \in DOMAIN folder.files :
        folder.files[i].title = name /\ ~folder.files[i].trashed}

\* what Upload() does when it has no id yet: the file is inserted
Inserted(folder, name) == Folder(Append(folder.files, DriveFile(name, FALSE)))

\* how an Upload() ends: the file is stored and the answer arrives; the
\* request fails and nothing is stored; the file is stored and the answer
\* is lost, which raises as well
UploadOutcomes == {"ok", "error", "lost"}

\* the folder is new, or holds one file of an earlier run, trashed or not
InitUpload ==
    /\ obj = "DriveManager"
    /\ remote \in {Folder(<<>>)}
                    \cup {Folder(<<DriveFile(n, t)>>) : n \in UploadNames, t \in BOOLEAN}
    /\ pc = "idle"
    /\ args = NoArgs
    /\ locals = [kind |-> "upload", calls |-> 0, attempt |-> 0]
    /\ ret = Pending
    /\ raised = ""
    /\ reached = {}
    /\ files = [p \in Paths |-> Missing]
    /\ data = [p \in Paths |-> None]
    /\ threshold = Pending
    /\ prev = Pending
    /\ out = Pending
    /\ session = Unused
    /\ caller = "main"

\* upload_file up to the loop: the existing file's id is returned, the
\* first of the list when there are several
UploadFile(name) ==
    /\ pc = "idle"
    /\ locals.calls < MaxCalls
    /\ args' = [op |-> "upload_file", name |-> name]
    /\ locals' = [locals EXCEPT !.calls = @ + 1, !.attempt = 0]
    /\ IF Existing(remote, name) # {}
       THEN /\ \E i \in Existing(remote, name) : ret' = Id(i)
            /\ pc' = "returned"
       ELSE /\ ret' = Pending
            /\ pc' = "upload"
    /\ UNCHANGED <<obj, files, data, threshold, raised, reached, prev, caller,
                   out, session, remote>>

\* one pass of the retry loop: gfile.Upload() returns and the id is
\* returned, or raises; after the third failure None is returned
UploadAttempt(outcome) ==
    /\ pc = "upload"
    /\ locals.attempt < MaxUploadRetries
    /\ locals' = [locals EXCEPT !.attempt = @ + 1]
    /\ remote' = IF outcome \in {"ok", "lost"} THEN Inserted(remote, args.name)
                 ELSE remote
    /\ IF outcome = "ok"
       THEN ret' = Id(Len(remote'.files)) /\ pc' = "returned"
       ELSE IF locals'.attempt = MaxUploadRetries
       THEN ret' = None /\ pc' = "returned"
       ELSE ret' = Pending /\ pc' = "upload"
    /\ UNCHANGED <<obj, files, data, args, threshold, raised, reached, prev,
                   caller, out, session>>

\* the caller takes the result
UploadReturn ==
    /\ pc = "returned"
    /\ pc' = "idle"
    /\ prev' = ret
    /\ UNCHANGED <<obj, files, data, args, threshold, ret, raised, reached,
                   caller, out, locals, session, remote>>

\* between two calls the owner of the folder moves a file to the trash
Trash(i) ==
    /\ pc = "idle"
    /\ i \in DOMAIN remote.files
    /\ ~remote.files[i].trashed
    /\ remote' = Folder([remote.files EXCEPT ![i].trashed = TRUE])
    /\ UNCHANGED <<obj, files, data, pc, args, threshold, ret, raised, reached,
                   prev, caller, out, locals, session>>

NextUpload ==
    \/ \E name \in UploadNames : UploadFile(name)
    \/ \E outcome \in UploadOutcomes : UploadAttempt(outcome)
    \/ UploadReturn
    \/ \E i \in 1..(1 + MaxCalls * MaxUploadRetries) : Trash(i)

SpecUpload == InitUpload /\ [][NextUpload]_vars

---------------------------------------------------------------------------
(* Claims *)

IsRaster(f) == f.kind = "raster"
AllFinite(pix) == \A k \in 1..Len(pix) : IsFinite(pix[k])
Returned == pc = "done" /\ raised = "" /\ ret.kind = "pair"
ReturnedGrid == Returned /\ ret.grid.kind = "array"
NdviDone == obj = "NDVIProcessor" /\ pc = "done"
DetectDone == obj = "Sentinel1FloodDetector" /\ pc = "done"
LoadDone == obj = "RasterBand" /\ pc = "done"
\* -1 <= n/d <= 1, which no NaN and no infinity satisfies
InUnitRange(v) == v[2] > 0 /\ -v[2] <= v[1] /\ v[1] <= v[2]
IsZero(v) == v[2] > 0 /\ v[1] = 0

\* C1: for loadable RED and NIR rasters of finite samples, of equal or
\* different shapes, every element of the grid compute_ndvi returns lies in
\* [-1.0, 1.0].
C1_NdviInRange ==
    (/\ NdviDone
     /\ IsRaster(files[RedPath]) /\ AllFinite(files[RedPath].pix)
     /\ IsRaster(files[NirPath]) /\ AllFinite(files[NirPath].pix))
    => /\ ReturnedGrid
       /\ \A k \in 1..Len(ret.grid.pix) : InUnitRange(ret.grid.pix[k])

\* C1 witness: shapes differ, a pixel pair sums to zero with NIR > RED, another
\* sums to a negative number, and the grid holds both ends of the range
C1_Witness ==
    /\ NdviDone /\ ReturnedGrid
    /\ <<files[RedPath].h, files[RedPath].w>> # <<files[NirPath].h, files[NirPath].w>>
    /\ files[RedPath].pix[1] = Num(-1) /\ files[NirPath].pix[1] = Num(1)
    /\ \E k \in 1..Len(files[NirPath].pix) : files[NirPath].pix[k] = Num(-1)
    /\ \E k \in 1..Len(ret.grid.pix) : ret.grid.pix[k] = Num(1)
    /\ \E k \in 1..Len(ret.grid.pix) : ret.grid.pix[k] = Num(-1)

\* C2: for loadable inputs of shapes (r1, c1) and (r2, c2), compute_ndvi
\* returns a grid of shape (max(r1, r2), max(c1, c2)), never a null result or
\* an error.
C2_NdviShape ==
    (NdviDone /\ IsRaster(files[RedPath]) /\ IsRaster(files[NirPath]))
    => /\ ReturnedGrid
       /\ ret.grid.h = Max(files[RedPath].h, files[NirPath].h)
       /\ ret.grid.w = Max(files[RedPath].w, files[NirPath].w)
       /\ Len(ret.grid.pix) = ret.grid.h * ret.grid.w

\* C2 witness: RED is taller, NIR is wider, the grid has the height of one and
\* the width of the other
C2_Witness ==
    /\ NdviDone /\ ReturnedGrid
    /\ files[RedPath].h > files[NirPath].h
    /\ files[RedPath].w < files[NirPath].w
    /\ ret.grid.h = files[RedPath].h
    /\ ret.grid.w = files[NirPath].w

\* C3: detect with an explicit threshold t returns a mask of the shape of the
\* input, of 0 and 1 only, where a pixel is 1 iff its input value is strictly
\* less than t.
C3_ExplicitThreshold ==
    (DetectDone /\ args.threshold # None /\ IsRaster(files[BandPath]))
    => /\ ReturnedGrid
       /\ ret.grid.h = files[BandPath].h
       /\ ret.grid.w = files[BandPath].w
       /\ Len(ret.grid.pix) = files[BandPath].h * files[BandPath].w
       /\ \A k \in 1..Len(ret.grid.pix) :
              LET x == files[BandPath].pix[k]
                  t == args.threshold.v
              IN  /\ ret.grid.pix[k] \in {0, 1}
                  /\ ret.grid.pix[k] = 1 <=> (x[2] > 0 /\ x[1] * t[2] < t[1] * x[2])

\* C3 witness: one pixel below the threshold, one equal to it, one NaN
C3_Witness ==
    /\ DetectDone /\ ReturnedGrid /\ args.threshold # None
    /\ \E k \in 1..Len(ret.grid.pix) :
           files[BandPath].pix[k] = args.threshold.v /\ ret.grid.pix[k] = 0
    /\ \E k \in 1..Len(ret.grid.pix) :
           Lt(files[BandPath].pix[k], args.threshold.v) /\ ret.grid.pix[k] = 1
    /\ \E k \in 1..Len(ret.grid.pix) : IsNaN(files[BandPath].pix[k])

\* C4: when the file is missing or corrupt, RasterBand.load returns None and
\* detect returns (None, None), and neither raises, whatever the downsample
\* factor, the threshold or the percentile.
C4_LoadFailure ==
    /\ (LoadDone /\ ~IsRaster(files[BandPath])) => (raised = "" /\ ret = None)
    /\ (DetectDone /\ ~IsRaster(files[BandPath]))
       => (raised = "" /\ ret = Pair(None, None))

\* C4 witness: detect over a corrupt file, the threshold left to the percentile
C4_Witness ==
    /\ DetectDone /\ files[BandPath] = Corrupt /\ args.threshold = None
    /\ ret = Pair(None, None)

\* C5: compute_ndvi returns (None, None) and raises nothing when the RED load,
\* the NIR load or both fail; neither the formula nor the bounds read is
\* reached.
C5_NdviLoadFailure ==
    (NdviDone /\ (~IsRaster(files[RedPath]) \/ ~IsRaster(files[NirPath])))
    => /\ raised = ""
       /\ ret = Pair(None, None)
       /\ reached = {"load_red", "load_nir"}

\* C5 witness: only the NIR load failed
C5_Witness ==
    /\ NdviDone /\ IsRaster(files[RedPath]) /\ files[NirPath] = Missing
    /\ data[RedPath].kind = "array" /\ data[NirPath] = None
    /\ ret = Pair(None, None)

ShapeOf(a) == <<a.h, a.w>>

\* C6 as claimed: for a valid raster of height h and width w and a positive
\* downsample factor f, load(f) returns a grid of shape (h, w) when f = 1 and
\* (h // f, w // f) when f > 1.
C6_LoadShapeClaimed ==
    (LoadDone /\ IsRaster(files[BandPath]) /\ args.downsample_factor >= 1)
    => /\ raised = "" /\ ret.kind = "array"
       /\ ShapeOf(ret) = <<files[BandPath].h \div args.downsample_factor,
                           files[BandPath].w \div args.downsample_factor>>

\* C6 amended: load(f) returns a grid of shape (h // f, w // f) when both
\* h // f and w // f are positive, and of the native shape (h, w) when f
\* exceeds the height or the width.
C6_LoadShape ==
    (LoadDone /\ IsRaster(files[BandPath]) /\ args.downsample_factor >= 1)
    => LET f == args.downsample_factor
           h == files[BandPath].h
           w == files[BandPath].w
       IN  /\ raised = "" /\ ret.kind = "array"
           /\ ShapeOf(ret) = IF h \div f > 0 /\ w \div f > 0
                             THEN <<h \div f, w \div f>> ELSE <<h, w>>
           /\ Len(ret.pix) = ret.h * ret.w

\* C6 witness: a raster read at half its height and half its width
C6_Witness ==
    /\ LoadDone /\ IsRaster(files[BandPath]) /\ args.downsample_factor = 2
    /\ ret.kind = "array"
    /\ files[BandPath].h = 2 * ret.h /\ files[BandPath].w = 2 * ret.w

\* C7: when the RED and the NIR file hold identical finite rasters, every
\* element of the grid compute_ndvi returns is zero, also where the sample
\* itself is zero.
C7_IdenticalInputs ==
    (/\ NdviDone
     /\ IsRaster(files[RedPath]) /\ IsRaster(files[NirPath])
     /\ ShapeOf(files[RedPath]) = ShapeOf(files[NirPath])
     /\ files[RedPath].pix = files[NirPath].pix
     /\ AllFinite(files[RedPath].pix))
    => /\ ReturnedGrid
       /\ \A k \in 1..Len(ret.grid.pix) : IsZero(ret.grid.pix[k])

\* C7 witness: identical rasters with a zero sample and a negative one
C7_Witness ==
    /\ NdviDone /\ ReturnedGrid
    /\ ShapeOf(files[RedPath]) = ShapeOf(files[NirPath])
    /\ files[RedPath].pix = files[NirPath].pix
    /\ \E k \in 1..Len(ret.grid.pix) : files[RedPath].pix[k] = Num(0)
    /\ \E k \in 1..Len(ret.grid.pix) : files[RedPath].pix[k] = Num(-1)

\* the pixels of the mask that are 1
Ones(m) == Cardinality({k \in 1..Len(m.pix) : m.pix[k] = 1})
Distinct(pix) == \A j, k \in 1..Len(pix) : j # k => pix[j] # pix[k]
PercentileCall == DetectDone /\ args.threshold = None /\ IsRaster(files[BandPath])

\* C8 as claimed: with threshold=None and percentile p, the number of finite
\* pixels classified as 1 differs from p% of the number of finite pixels by
\* less than one pixel.
C8_PercentileShareClaimed ==
    PercentileCall
    => /\ ReturnedGrid
       /\ LET pix == files[BandPath].pix
              finite == {k \in 1..Len(pix) : IsFinite(pix[k])}
              flooded == {k \in finite : ret.grid.pix[k] = 1}
              diff == 100 * Cardinality(flooded) - args.percentile * Cardinality(finite)
          IN  -100 < diff /\ diff < 100

\* C8 amended: with threshold=None and percentile p over n pixels, at most
\* ceil(p * (n - 1) / 100) pixels are classified as 1; exactly that many when
\* the samples are finite and pairwise distinct, which is within one pixel of
\* p% of n (within less than one pixel for p < 100).
C8_PercentileShare ==
    PercentileCall
    => /\ ReturnedGrid
       /\ LET pix == files[BandPath].pix
              n == Len(pix)
              p == args.percentile
              rank == (p * (n - 1) + 99) \div 100
              diff == 100 * Ones(ret.grid) - p * n
          IN  /\ Ones(ret.grid) <= rank
              /\ (AllFinite(pix) /\ Distinct(pix))
                 => /\ Ones(ret.grid) = rank
                    /\ -100 <= diff /\ diff < 100
                    /\ p < 100 => -100 < diff

\* C8 witness: three distinct samples, the 20th percentile, one pixel flooded
C8_Witness ==
    /\ PercentileCall /\ ReturnedGrid
    /\ Len(files[BandPath].pix) = 3
    /\ AllFinite(files[BandPath].pix) /\ Distinct(files[BandPath].pix)
    /\ args.percentile = 20
    /\ Ones(ret.grid) = 1

\* the finite samples, in order
FinitePart(pix) == SelectSeq(pix, IsFinite)

\* C9: with no threshold supplied, the threshold detect uses is the given
\* percentile of the finite samples only, and is finite whenever the grid has
\* a finite sample.
C9_FiniteThreshold ==
    (PercentileCall /\ \E k \in 1..Len(files[BandPath].pix) : IsFinite(files[BandPath].pix[k]))
    => /\ raised = ""
       /\ threshold.kind = "float"
       /\ IsFinite(threshold.v)
       /\ Eq(threshold.v, Percentile(FinitePart(files[BandPath].pix), args.percentile).v)

\* C10: the bounds compute_ndvi returns are those of the RED file, whatever
\* the bounds and the shape of the NIR file; the bounds detect returns are
\* those of the radar file.
C10_Bounds ==
    /\ (NdviDone /\ IsRaster(files[RedPath]) /\ IsRaster(files[NirPath]))
       => (ReturnedGrid /\ ret.bounds = files[RedPath].box)
    /\ (DetectDone /\ IsRaster(files[BandPath]))
       => (ReturnedGrid /\ ret.bounds = files[BandPath].box)

\* C10 witness: the NIR file has other bounds and the shape of the grid
C10_Witness ==
    /\ NdviDone /\ ReturnedGrid
    /\ files[RedPath].box # files[NirPath].box
    /\ ShapeOf(ret.grid) = ShapeOf(files[NirPath])
    /\ ShapeOf(ret.grid) # ShapeOf(files[RedPath])
    /\ ret.bounds = files[RedPath].box

\* the running call loaded a version of the file that is no longer there
ReplacedSinceLoad(p) ==
    /\ data[p].kind = "array"
    /\ \/ ~IsRaster(files[p])
       \/ data[p] # Array(files[p].h, files[p].w, files[p].pix)

\* C11: whatever happens to the files, every return of compute_ndvi and of
\* detect is a pair that is either (None, None) or a grid with a bounding
\* box: the grid is None exactly when the bounds are.
C11_PairShape ==
    (pc = "done" /\ raised = "" /\ obj \in {"NDVIProcessor", "Sentinel1FloodDetector"})
    => /\ ret.kind = "pair"
       /\ ret.grid = None <=> ret.bounds = None
       /\ ret.grid = None \/ ret.grid.kind = "array"
       /\ ret.bounds = None \/ ret.bounds \in Boxes

\* C11 witness: detect returns a grid with its box although the file was
\* replaced between the load and the second open
C11_Witness ==
    /\ DetectDone /\ ReturnedGrid
    /\ ret.bounds \in Boxes
    /\ ReplacedSinceLoad(BandPath)

\* C12: for every loadable radar raster, NaN pixels among its samples or
\* not, with an explicit threshold and with a percentile, detect returns a
\* mask of the shape of the input grid whose values are 0 and 1 only.
C12_MaskBinary ==
    (DetectDone /\ IsRaster(files[BandPath]))
    => /\ ReturnedGrid
       /\ ShapeOf(ret.grid) = ShapeOf(files[BandPath])
       /\ Len(ret.grid.pix) = files[BandPath].h * files[BandPath].w
       /\ \A k \in DOMAIN ret.grid.pix : ret.grid.pix[k] \in {0, 1}

\* C12 witness: a two-row raster with a NaN pixel, masked by a percentile
\* threshold
C12_Witness ==
    /\ DetectDone /\ ReturnedGrid
    /\ args.threshold = None
    /\ files[BandPath].h = 2
    /\ ShapeOf(ret.grid) = ShapeOf(files[BandPath])
    /\ \E k \in 1..Len(files[BandPath].pix) : IsNaN(files[BandPath].pix[k])
    /\ \E k \in 1..Len(files[BandPath].pix) : IsFinite(files[BandPath].pix[k])

\* the grid a readable file holds
GridOf(f) == Array(f.h, f.w, f.pix)

\* the results a call with arguments a has over the files f alone
ResultsOver(f, a) ==
    IF a.op = "load"
    THEN LoadBand(f[BandPath], a.downsample_factor)
    ELSE IF a.op = "compute_ndvi"
    THEN IF IsRaster(f[RedPath]) /\ IsRaster(f[NirPath])
         THEN {Pair(NdviGrid(GridOf(f[RedPath]), GridOf(f[NirPath])), f[RedPath].box)}
         ELSE {Pair(None, None)}
    ELSE IF IsRaster(f[BandPath])
         THEN {Pair(Mask(GridOf(f[BandPath]),
                         DetectThreshold(GridOf(f[BandPath]), a.threshold, a.percentile).v),
                    f[BandPath].box)}
         ELSE {Pair(None, None)}

\* C13: over any sequence of calls on one object, with the files rewritten,
\* removed and restored between the calls, the result of a call is the one
\* the files' content at that call and the arguments determine: nothing an
\* earlier call loaded or failed to load shows in it.
C13_CallsIndependent ==
    pc = "done" => Outcome \in ResultsOver(files, args)

\* C13 witness: the previous call on the object returned a grid, the file
\* was removed or damaged since, and this call returns the null result
C13_Witness ==
    /\ pc = "done"
    /\ prev.kind = "pair" /\ prev.grid.kind = "array"
    /\ ~IsRaster(files[BandPath])
    /\ Outcome = Pair(None, None)

\* the files as the detector of invocation i sees them at its own path
FilesOf(i) == [p \in Paths |-> files[PathOf(i)]]

\* what invocation i gave its caller
OutcomeOf(i) == IF raised[i] = "" THEN ret[i] ELSE Raise(raised[i])

\* C14: two detect calls run at once on two detector objects over two files:
\* however their steps interleave, each call ends with the result it has
\* when it runs alone over its own file.
C14_Isolated ==
    \A i \in Procs :
        pc[i] = "done" => OutcomeOf(i) \in ResultsOver(FilesOf(i), args[i])

\* C14 witness: both calls ran while the other was between its load and its
\* mask, over different files, and returned different masks
C14_Witness ==
    /\ \A i \in Procs : pc[i] = "done" /\ "overlap" \in reached[i]
    /\ \A i \in Procs : ret[i].kind = "pair" /\ ret[i].grid.kind = "array"
    /\ args[1] = args[2]
    /\ ret[1].grid # ret[2].grid

\* C15: every step of load, compute_ndvi and detect, on the success path
\* and on every failure path, leaves every file as it was: same existence,
\* same content.
C15_FilesUnchanged == [][pc' # pc => files' = files]_vars

\* C15 witness: compute_ndvi failed on a damaged NIR file after it loaded
\* the RED file, and both files are as they were
C15_Witness ==
    /\ NdviDone /\ Outcome = Pair(None, None)
    /\ files[NirPath] = Corrupt
    /\ IsRaster(files[RedPath]) /\ data[RedPath] = GridOf(files[RedPath])

\* the band as the formula of compute_ndvi reads it: resized to the common
\* shape when the shapes of the two bands differ
Resized(a, b) ==
    IF ShapeOf(a) # ShapeOf(b)
    THEN Resize(a, TargetShape(a, b)[1], TargetShape(a, b)[2]) ELSE a

FiniteBands ==
    /\ NdviDone
    /\ IsRaster(files[RedPath]) /\ AllFinite(files[RedPath].pix)
    /\ IsRaster(files[NirPath]) /\ AllFinite(files[NirPath].pix)

\* NIR + RED is exactly zero at pixel k
ZeroDenom(k) ==
    Eq(Add(Resized(GridOf(files[NirPath]), GridOf(files[RedPath])).pix[k],
           Resized(GridOf(files[RedPath]), GridOf(files[NirPath])).pix[k]), Num(0))

\* NIR - RED at pixel k
Numerator(k) ==
    Sub(Resized(GridOf(files[NirPath]), GridOf(files[RedPath])).pix[k],
        Resized(GridOf(files[RedPath]), GridOf(files[NirPath])).pix[k])

\* away from a zero denominator, (NIR - RED) / (NIR + RED) clipped, the
\* denominator as it is
PlainQuotient(k) ==
    ret.grid.pix[k] =
        Clip(Div(Numerator(k),
                 Add(Resized(GridOf(files[NirPath]), GridOf(files[RedPath])).pix[k],
                     Resized(GridOf(files[RedPath]), GridOf(files[NirPath])).pix[k])),
             Num(-1), Num(1))

\* C16 as claimed: for finite inputs the grid holds no NaN and no infinity;
\* where NIR + RED is exactly zero the element is 0 when NIR = RED, +1 when
\* NIR > RED and -1 when NIR < RED; elsewhere it is the clipped quotient
\* over the unmodified denominator.
C16_ZeroDenomClaimed ==
    FiniteBands
    => /\ ReturnedGrid
       /\ \A k \in DOMAIN ret.grid.pix :
              /\ IsFinite(ret.grid.pix[k])
              /\ IF ZeroDenom(k)
                 THEN Eq(ret.grid.pix[k], Num(Sign(Numerator(k)[1])))
                 ELSE PlainQuotient(k)

\* C16: for finite inputs the grid holds no NaN and no infinity; where
\* NIR + RED is exactly zero the element is (NIR - RED) / 1e-6 clipped:
\* 0 when NIR = RED, +1 when NIR - RED >= 1e-6, -1 when NIR - RED <= -1e-6
\* and strictly between, with the sign of NIR - RED, when the difference is
\* smaller; elsewhere it is the clipped quotient over the unmodified
\* denominator.
C16_ZeroDenom ==
    FiniteBands
    => /\ ReturnedGrid
       /\ \A k \in DOMAIN ret.grid.pix :
              LET v == ret.grid.pix[k]
                  d == Numerator(k)
              IN  /\ IsFinite(v)
                  /\ IF ZeroDenom(k)
                     THEN /\ v = Clip(Div(d, Eps), Num(-1), Num(1))
                          /\ d[1] = 0 => IsZero(v)
                          /\ ~Lt(d, Eps) => v = Num(1)
                          /\ ~Lt(Neg(Eps), d) => v = Num(-1)
                          /\ (d[1] > 0 /\ Lt(d, Eps)) => Lt(Num(0), v) /\ Lt(v, Num(1))
                          /\ (d[1] < 0 /\ Lt(Neg(Eps), d)) => Lt(v, Num(0)) /\ Lt(Num(-1), v)
                     ELSE PlainQuotient(k)

\* C16 witness: NIR = 2^-22 and RED = -2^-22 at a pixel, NIR = -RED = 2^-22
\* reversed at the other: the sums are zero and the elements are not +-1
C16_Witness ==
    /\ FiniteBands /\ ReturnedGrid
    /\ Len(ret.grid.pix) = 2
    /\ files[NirPath].pix = <<Tiny, Neg(Tiny)>>
    /\ files[RedPath].pix = <<Neg(Tiny), Tiny>>
    /\ Lt(Num(0), ret.grid.pix[1]) /\ Lt(ret.grid.pix[1], Num(1))
    /\ Lt(ret.grid.pix[2], Num(0)) /\ Lt(Num(-1), ret.grid.pix[2])

\* C17: a threshold passed to detect is the one the mask is cut at, 0.0 and
\* negative thresholds included, whatever the percentile argument is, in
\* range or not: the call does not fail on it and the mask does not depend
\* on it. Only when the threshold is None is the threshold the percentile of
\* the samples.
C17_ThresholdPrecedence ==
    (DetectDone /\ IsRaster(files[BandPath]))
    => IF args.threshold # None
       THEN /\ ReturnedGrid
            /\ threshold = args.threshold
            /\ \A k \in DOMAIN ret.grid.pix :
                   ret.grid.pix[k] = IF Lt(files[BandPath].pix[k], args.threshold.v)
                                     THEN 1 ELSE 0
       ELSE threshold = Percentile(files[BandPath].pix, args.percentile)

\* C17 witness: threshold 0.0 passed with the percentile 150: the pixel of
\* value -1 is flooded, the pixel of value 0 is not
C17_Witness ==
    /\ DetectDone /\ ReturnedGrid
    /\ args.threshold = Float(Num(0)) /\ args.percentile = 150
    /\ \E k \in DOMAIN ret.grid.pix :
           files[BandPath].pix[k] = Num(-1) /\ ret.grid.pix[k] = 1
    /\ \E k \in DOMAIN ret.grid.pix :
           files[BandPath].pix[k] = Num(0) /\ ret.grid.pix[k] = 0

\* the band whose file gives the bounds of the result
BoundsBand == IF obj = "NDVIProcessor" THEN NdviBoundsPath ELSE DetectBoundsPath

\* C18: the bounding box compute_ndvi and detect return is the box of the
\* version of the file the grid was loaded from, also when another process
\* replaces the file while the call runs.
C18_BoundsOfLoadedVersion ==
    (ReturnedGrid /\ obj \in {"NDVIProcessor", "Sentinel1FloodDetector"})
    => \E v \in Versions :
           /\ data[BoundsBand] = GridOf(v)
           /\ ret.bounds = v.box

\* C19: compute_ndvi and detect never raise for a file that is missing or
\* unreadable, at the load or at the second open that reads the bounds: the
\* call ends with the null pair instead.
C19_NeverRaises ==
    (pc = "done" /\ obj \in {"NDVIProcessor", "Sentinel1FloodDetector"})
    => /\ raised = ""
       /\ ret.kind = "pair"

\* C20: no caller passes a null result on or dereferences it. The /ndvi and
\* /flood endpoints answer with an "error" object exactly when the grid is
\* None, and with the stats or the flooded percentage otherwise; the four
\* Local Analysis buttons of the dashboard show an error message and draw
\* neither map nor overlay when the core returned (None, None).
C20_NullResultShown ==
    (pc = "answered" /\ raised = "")
    => IF caller \in ApiCallers
       THEN /\ out.kind = "json"
            /\ out.key = "error" <=> ret.grid = None
            /\ ret.grid # None =>
                   out.key = (IF caller = "/ndvi" THEN "stats" ELSE "flooded_area_percent")
       ELSE /\ out.kind = "page"
            /\ ret = Pair(None, None) =>
                   out.errors # {} /\ ~out.overlay /\ ~out.map
            /\ ret.grid # None => out.errors = {} /\ out.overlay

\* C20 witness: the cloud NDVI button, which has no test of its own, got
\* (None, None) for a damaged download and the page shows an error, no map
C20_Witness ==
    /\ pc = "answered" /\ caller = "cloud_ndvi"
    /\ ret = Pair(None, None)
    /\ out.kind = "page" /\ out.errors # {} /\ ~out.overlay
    /\ \A p \in Paths : files[p] = Missing

\* C21: in the grid RasterBand.load returns at the native shape, every
\* pixel that holds the no-data value the raster declares is NaN.
C21_NoDataIsNaN ==
    (/\ LoadDone /\ IsRaster(files[BandPath])
     /\ NoDataOf(files[BandPath]) # None
     /\ raised = "" /\ ret.kind = "array"
     /\ ShapeOf(ret) = ShapeOf(files[BandPath]))
    => \A k \in DOMAIN ret.pix :
           files[BandPath].pix[k] = NoDataOf(files[BandPath]) => IsNaN(ret.pix[k])

\* the smallest sample of the grid, when no sample is NaN
IsMinimum(pix, v) ==
    /\ \E k \in DOMAIN pix : pix[k] = v
    /\ \A k \in DOMAIN pix : ~Lt(pix[k], v)

\* C22: with threshold=None a pixel holding the minimum of the grid is
\* flooded only if the percentile threshold is strictly above that minimum;
\* a grid whose pixels are all equal gives an all-zero mask for every
\* percentile in [0, 100], and percentile 0 gives an all-zero mask for
\* every grid.
C22_MinimumNotFlooded ==
    PercentileCall
    => /\ ReturnedGrid
       /\ \A k \in DOMAIN ret.grid.pix :
              (IsMinimum(files[BandPath].pix, files[BandPath].pix[k]) /\ ret.grid.pix[k] = 1)
              => Lt(files[BandPath].pix[k], threshold.v)
       /\ (\A j, k \in DOMAIN ret.grid.pix : files[BandPath].pix[j] = files[BandPath].pix[k])
          => Ones(ret.grid) = 0
       /\ args.percentile = 0 => Ones(ret.grid) = 0

\* C22 witness: four equal finite pixels under the percentile 100, and the
\* mask is all zero
C22_Witness ==
    /\ PercentileCall /\ ReturnedGrid
    /\ Len(ret.grid.pix) = 4
    /\ \A k \in DOMAIN ret.grid.pix : files[BandPath].pix[k] = Num(1)
    /\ args.percentile = 100
    /\ Ones(ret.grid) = 0

\* st.session_state.auth is True
Authenticated(s) == HasKey(s, "auth") /\ s.auth
\* the page holds Command Center content: its title, an analysis button or
\* the analysis map
CommandCenterShown(o) ==
    /\ o.kind = "screen"
    /\ \/ o.title = "Command Center"
       \/ o.buttons \cap {AnalysisButton(a, t) : a \in Apps, t \in {"ndvi", "water"}} # {}
       \/ o.mode = "Authority Dashboard" /\ o.map
\* the run was a Login click in Authority Dashboard mode
LoginClick(l) ==
    l.kind = "run" /\ l.mode = "Authority Dashboard" /\ l.click = "Login"

\* C23: in every step of a dashboard session, Command Center content is on
\* the page only if session_state.auth was True in the run that rendered
\* it; auth is created False; it becomes True only in a run with a Login
\* click and the admin password in the field; a Login click with another
\* password leaves it False; once True it stays True.
C23_CommandCenterNeedsAuth ==
    [][/\ CommandCenterShown(out') => Authenticated(session) /\ Authenticated(session')
       /\ (~HasKey(session, "auth") /\ HasKey(session', "auth")) => ~session'.auth
       /\ (~Authenticated(session) /\ Authenticated(session'))
          => LoginClick(locals') /\ locals'.pwd = AdminPassword
       /\ (LoginClick(locals') /\ locals'.pwd # AdminPassword)
          => HasKey(session', "auth") /\ ~session'.auth
       /\ Authenticated(session) => Authenticated(session')]_vars

\* C23 witness: after a login the Command Center is on the page and an
\* analysis button was clicked in the run that rendered it
C23_Witness ==
    /\ out.kind = "screen" /\ out.title = "Command Center"
    /\ Authenticated(session)
    /\ locals.click = AnalysisButton(obj, "water")
    /\ HasKey(session, "dash_data")

\* the last run was main_app's Citizen App mode with the overlay toggle on
CitizenOverlayRun ==
    /\ obj = "main_app"
    /\ locals.kind = "run" /\ locals.mode = "Citizen App"
    /\ locals.show_sat

\* C25: after a Citizen App run of main_app with the satellite overlay on,
\* the value passed to the map as data is None or a raster grid; when
\* get_ndvi found no data (no grid came from it) get_flood_data was queried
\* and the map type is "water"; get_flood_data was queried only then; and
\* when no data was found at all the error is shown and the map is drawn
\* without an overlay.
C25_FallbackToFlood ==
    CitizenOverlayRun
    => /\ locals.map_data = None \/ locals.map_data.kind = "array"
       /\ "get_flood_data" \in reached <=> locals.map_type = "water"
       /\ locals.map_type = "ndvi" => locals.map_data # None
       /\ locals.map_data = None
          => /\ "No data found for the selected region and date range." \in out.errors
             /\ out.map /\ ~out.overlay /\ raised = ""

\* C24: when a Local Analysis action is over, no temporary file of the
\* action is left: the temporary directory, empty before the click, is
\* empty again.
C24_TempFilesRemoved ==
    pc = "answered" => \A p \in Paths : files[p] = Missing

\* s is the beginning of t
IsPrefix(s, t) == Len(s) <= Len(t) /\ s = SubSeq(t, 1, Len(s))
\* the local ZIP holds the remote content byte for byte
ZipComplete == files[ZipPath] = Bytes(remote.content)
\* the last request asked for the bytes from the size the file had, to be
\* appended, and for everything, to be written from scratch, when that
\* size was zero
RequestFromSize ==
    /\ locals.current_size > 0
       => locals.range = <<locals.current_size>> /\ locals.mode = "ab"
    /\ locals.current_size = 0 => locals.range = <<>> /\ locals.mode = "wb"

\* C26 as stated: every request starts at the current size of the local
\* file; whenever the loop has ended the local ZIP equals the remote
\* content; 416 is answered only to a complete local file.
C26_LoopEndsComplete ==
    /\ RequestFromSize
    /\ pc = "extract" => ZipComplete
    /\ (pc = "extract" /\ locals.status = 416) => ZipComplete

\* C26 amended: every request starts at the current size of the local file,
\* so the local ZIP is always a beginning of the remote content, without
\* gap or repeated byte; when the loop has ended by a complete transfer or
\* by 416 it equals the remote content, and it is shorter only after the 20
\* failed attempts of SmartDownloader; 416 is answered only to a complete
\* local file.
C26_ResumeExact ==
    /\ RequestFromSize
    /\ files[ZipPath] # Missing => IsPrefix(files[ZipPath].b, remote.content)
    /\ (pc = "extract" /\ (locals.download_complete \/ locals.status = 416))
       => ZipComplete
    /\ (pc = "extract" /\ ~ZipComplete)
       => obj = "SmartDownloader" /\ locals.retries = MaxRetries

\* C26 witness: the loop has ended by a complete transfer that resumed a
\* partial file after two interrupted attempts
C26_Witness ==
    /\ pc = "extract"
    /\ locals.download_complete
    /\ locals.retries = 2
    /\ locals.mode = "ab" /\ locals.current_size = 2
    /\ ZipComplete

\* the loop of SmartDownloader was left with 20 failed attempts and neither
\* a complete transfer nor 416
GaveUp ==
    /\ obj = "SmartDownloader"
    /\ locals.retries = MaxRetries
    /\ ~locals.download_complete /\ locals.status # 416

\* C27 as stated: in SmartDownloader retries never passes 20; the loop is
\* left only after a complete transfer, a 416 answer or 20 failed attempts;
\* and after 20 failed attempts the function returns the empty list without
\* raising.
C27_EmptyAfterRetries ==
    obj = "SmartDownloader"
    => /\ locals.retries <= MaxRetries
       /\ pc \in {"extract", "returned"}
          => locals.download_complete \/ locals.status = 416 \/ GaveUp
       /\ (pc = "returned" /\ GaveUp) => ret = List(<<>>) /\ raised = ""

\* C27 amended: in every step of SmartDownloader retries stays within 20;
\* the except branch adds one to it and goes back to the loop test; a pass
\* that stays in the loop has completed the transfer, and after a complete
\* transfer the loop is left without another attempt; the loop is left only
\* after a complete transfer, a 416 answer or 20 failed attempts; and the
\* extraction of a ZIP that is incomplete or missing returns the empty list
\* without raising, which is what happens after 20 failed attempts unless
\* the complete ZIP was in the directory before.
C27_LoopTerminates ==
    [][obj = "SmartDownloader"
       => /\ locals'.retries <= MaxRetries
          /\ pc = "except" => locals'.retries = locals.retries + 1 /\ pc' = "loop"
          /\ (pc = "loop" /\ pc' = "loop") => locals'.download_complete
          /\ (pc = "loop" /\ locals.download_complete) => pc' = "extract"
          /\ (pc = "loop" /\ pc' = "extract")
             => \/ locals'.download_complete
                \/ locals'.status = 416
                \/ locals'.retries = MaxRetries
          /\ (pc = "extract" /\ ~ZipComplete)
             => pc' = "returned" /\ ret' = List(<<>>) /\ raised' = ""]_vars

\* C27 witness: SmartDownloader has returned the empty list after 20 failed
\* attempts that left one byte of the ZIP
C27_Witness ==
    /\ pc = "returned" /\ GaveUp
    /\ files[ZipPath] = Bytes(SubSeq(remote.content, 1, 1))
    /\ ret = List(<<>>) /\ raised = ""

\* C28: every run of HybridDownloader._download_and_extract in which the
\* program keeps taking its steps eventually returns its list, whatever
\* the requests are answered.
C28_HybridReturns ==
    (obj = "HybridDownloader") => <>(pc = "returned")

\* how many entries of the list are the path p
Count(list, p) == Cardinality({i \in DOMAIN list.v : list.v[i] = p})

\* C30: in mode S2 the returned list holds every target path at most once
\* (so at most one RED and one NIR path), no member under R60m was
\* extracted, and no target file was written from two members.
C30_TargetsOnce ==
    (pc = "returned" /\ args.mode = "S2")
    => /\ \A p \in TargetPaths : Count(ret, p) <= 1
       /\ \A k \in reached : remote.members[k].dir # "R60m"
       /\ \A j, k \in reached :
              Target(remote.members[j], args.mode) = Target(remote.members[k], args.mode)
              => j = k

\* C29: the folder never holds two files that are not trashed under one
\* name; a call that found the name there made no upload attempt and
\* returned the id of the file that was there; a call makes at most 3
\* upload attempts; a returned id is the id of the one file of that name;
\* and None is returned only after 3 failed attempts.
C29_OneFilePerName ==
    /\ \A n \in UploadNames : Cardinality(Existing(remote, n)) <= 1
    /\ locals.attempt <= MaxUploadRetries
    /\ (pc = "returned" /\ ret # None)
       => Existing(remote, args.name) = {ret.v}
    /\ (pc = "returned" /\ ret = None) => locals.attempt = MaxUploadRetries

====
